---- MODULE Spec2Model ----
(***************************************************************************)
(* A model of the radix-tree HTTP router (src/src/router.rs, route.rs,     *)
(* ffi.rs).  Strings are sequences of one-character strings so that the    *)
(* prefix, split and case operations of the code can be computed.          *)
(* Option<T> is a sequence of length 0 (None) or 1 (Some).                 *)
(***************************************************************************)
EXTENDS Integers, Sequences, FiniteSets, TLC

VARIABLES tree, match_data, match_data_index, hash_path, last,
          readers, writer, iters

vars == <<tree, match_data, match_data_index, hash_path, last,
          readers, writer, iters>>

\* ---------------------------------------------------------------- bounds
\* most records the router may hold before add_route is no longer offered
MaxRecords == 3
\* cap on match_data_index (the code's counter is unbounded)
MaxIndex == 2
\* longest request path offered to the parameter and wildcard patterns
MaxPathLen == 6
\* longest path pattern offered to the path parser
MaxPatternLen == 4

\* ------------------------------------------------------- option and string
None == <<>>
Some(x) == <<x>>
IsSome(o) == Len(o) = 1
Unwrap(o) == o[1]

\* str::starts_with
StartsWith(s, p) == Len(p) <= Len(s) /\ SubSeq(s, 1, Len(p)) = p

\* str::ends_with
EndsWith(s, p) ==
    Len(p) <= Len(s) /\ SubSeq(s, Len(s) - Len(p) + 1, Len(s)) = p

\* str::find(char): index (1-based) of the first occurrence, 0 when absent
FindChar(s, c) ==
    IF \E i \in 1..Len(s) : s[i] = c
    THEN CHOOSE i \in 1..Len(s) : s[i] = c /\ \A j \in 1..(i - 1) : s[j] # c
    ELSE 0

LowerLetters ==
    <<"a", "b", "c", "d", "e", "f", "g", "h", "i", "j", "k", "l", "m",
      "n", "o", "p", "q", "r", "s", "t", "u", "v", "w", "x", "y", "z">>

UpperLetters ==
    <<"A", "B", "C", "D", "E", "F", "G", "H", "I", "J", "K", "L", "M",
      "N", "O", "P", "Q", "R", "S", "T", "U", "V", "W", "X", "Y", "Z">>

\* the upper-case letter of each lower-case letter
UpperOf ==
    [c \in {LowerLetters[i] : i \in 1..Len(LowerLetters)} |->
        UpperLetters[CHOOSE i \in 1..Len(LowerLetters) : LowerLetters[i] = c]]

\* str::to_uppercase
to_uppercase(s) ==
    [i \in 1..Len(s) |-> IF s[i] \in DOMAIN UpperOf THEN UpperOf[s[i]] ELSE s[i]]

\* str::to_lowercase
to_lowercase(s) ==
    [i \in 1..Len(s) |->
        IF \E c \in DOMAIN UpperOf : UpperOf[c] = s[i]
        THEN CHOOSE c \in DOMAIN UpperOf : UpperOf[c] = s[i]
        ELSE s[i]]

\* ------------------------------------------------------------ HTTP methods
\* RadixHttpMethod: a bitset is the set of its flags
MethodNames ==
    {"GET", "POST", "PUT", "DELETE", "PATCH", "HEAD", "OPTIONS", "CONNECT",
     "TRACE", "PURGE"}

\* the spelling of each flag that from_str compares with
MethodSpelling(m) ==
    CASE m = "GET" -> <<"G", "E", "T">>
      [] m = "POST" -> <<"P", "O", "S", "T">>
      [] m = "PUT" -> <<"P", "U", "T">>
      [] m = "DELETE" -> <<"D", "E", "L", "E", "T", "E">>
      [] m = "PATCH" -> <<"P", "A", "T", "C", "H">>
      [] m = "HEAD" -> <<"H", "E", "A", "D">>
      [] m = "OPTIONS" -> <<"O", "P", "T", "I", "O", "N", "S">>
      [] m = "CONNECT" -> <<"C", "O", "N", "N", "E", "C", "T">>
      [] m = "TRACE" -> <<"T", "R", "A", "C", "E">>
      [] m = "PURGE" -> <<"P", "U", "R", "G", "E">>

\* a plausible slip: the method string is compared without upper-casing
from_str_exact(s) ==
    IF \E m \in MethodNames : MethodSpelling(m) = s
    THEN Some(CHOOSE m \in MethodNames : MethodSpelling(m) = s)
    ELSE None

\* RadixHttpMethod::from_str
from_str(s) ==
    IF \E m \in MethodNames : MethodSpelling(m) = to_uppercase(s)
    THEN Some(CHOOSE m \in MethodNames : MethodSpelling(m) = to_uppercase(s))
    ELSE None

\* ------------------------------------------------------------ host patterns
\* a plausible slip: the pattern is stored as written, not in lower case
HostPatternNew_verbatim(pattern) ==
    IF StartsWith(pattern, <<"*">>)
    THEN [is_wildcard |-> TRUE, pattern |-> SubSeq(pattern, 2, Len(pattern))]
    ELSE [is_wildcard |-> FALSE, pattern |-> pattern]

\* HostPattern::new
HostPatternNew(pattern) ==
    IF StartsWith(pattern, <<"*">>)
    THEN [is_wildcard |-> TRUE,
          pattern |-> to_lowercase(SubSeq(pattern, 2, Len(pattern)))]
    ELSE [is_wildcard |-> FALSE, pattern |-> to_lowercase(pattern)]

\* HostPattern::matches
HostMatches(hp, host) ==
    IF hp.is_wildcard
    THEN EndsWith(to_lowercase(host), hp.pattern)
    ELSE to_lowercase(host) = hp.pattern

\* ------------------------------------------------------ variable expressions
Digits == {"0", "1", "2", "3", "4", "5", "6", "7", "8", "9"}

DigitValue(c) ==
    CASE c = "0" -> 0 [] c = "1" -> 1 [] c = "2" -> 2 [] c = "3" -> 3
      [] c = "4" -> 4 [] c = "5" -> 5 [] c = "6" -> 6 [] c = "7" -> 7
      [] c = "8" -> 8 [] c = "9" -> 9

\* the run of decimal digits a string starts with
DigitRun(s) ==
    SubSeq(s, 1, (CHOOSE i \in 1..(Len(s) + 1) :
                     /\ i = Len(s) + 1 \/ s[i] \notin Digits
                     /\ \A j \in 1..(i - 1) : s[j] \in Digits) - 1)

\* the digits of an exponent as a number; as in the standard library the
\* accumulation stops growing once 65536 is reached
RECURSIVE ExponentValue(_, _)
ExponentValue(ds, acc) ==
    IF ds = <<>> THEN acc
    ELSE ExponentValue(Tail(ds),
                       IF acc < 65536 THEN 10 * acc + DigitValue(ds[1]) ELSE acc)

\* digit lists without their leading zeros, and without their trailing zeros
StripLeadingZeros(ds) ==
    SubSeq(ds,
           CHOOSE i \in 1..(Len(ds) + 1) :
               /\ i = Len(ds) + 1 \/ ds[i] # 0
               /\ \A j \in 1..(i - 1) : ds[j] = 0,
           Len(ds))

StripTrailingZeros(ds) ==
    SubSeq(ds, 1,
           CHOOSE i \in 0..Len(ds) :
               /\ i = 0 \/ ds[i] # 0
               /\ \A j \in (i + 1)..Len(ds) : ds[j] = 0)

\* digit lists read as the fractions 0.d1d2..., compared: the first place
\* where they differ decides, and a list is below the ones it begins
DigitsLt(a, b) ==
    LET differ == {i \in 1..Len(a) : i <= Len(b) /\ a[i] # b[i]}
    IN IF differ = {} THEN Len(a) < Len(b)
       ELSE \E i \in differ : a[i] < b[i] /\ \A j \in differ : i <= j

\* The conversion is exact: a numeral becomes the f64 nearest to its decimal
\* value, a tie going to the even significand.  The arithmetic is on naturals
\* of any size, kept as their decimal digits from the most significant on,
\* without leading zeros (zero is the empty list).

\* a <= b
BigLe(a, b) == Len(a) < Len(b) \/ (Len(a) = Len(b) /\ ~DigitsLt(b, a))

\* 2 * a: a digit carries into the next one exactly when it is 5 or more
BigDouble(a) ==
    IF a = <<>> THEN <<>>
    ELSE (IF a[1] >= 5 THEN <<1>> ELSE <<>>)
         \o [i \in 1..Len(a) |->
                (2 * a[i] + IF i < Len(a) /\ a[i + 1] >= 5 THEN 1 ELSE 0) % 10]

\* a * 2^k (a itself when k <= 0), doubled by halves of k
RECURSIVE BigShl(_, _)
BigShl(a, k) ==
    IF k <= 0 \/ a = <<>> THEN a
    ELSE IF k = 1 THEN BigDouble(a)
    ELSE LET half == BigShl(a, k \div 2) IN BigShl(half, k - k \div 2)

\* the digits lo..hi of a - b, for b <= a written with as many digits as a,
\* given the borrow that the digits after hi ask for; the list starts with
\* the borrow that these digits ask for in turn.  The digits are worked out
\* by halves, the lower half first.
RECURSIVE BigSub(_, _, _, _, _)
BigSub(a, b, lo, hi, borrow) ==
    IF lo = hi
    THEN <<IF a[lo] < b[lo] + borrow THEN 1 ELSE 0,
           (a[lo] + 10 - b[lo] - borrow) % 10>>
    ELSE LET low == BigSub(a, b, (lo + hi) \div 2 + 1, hi, borrow)
         IN IF low[1] = 0
            THEN BigSub(a, b, lo, (lo + hi) \div 2, 0) \o Tail(low)
            ELSE BigSub(a, b, lo, (lo + hi) \div 2, 1) \o Tail(low)

\* the first k binary digits of n / m for n < 2 * m, and twice what is left
\* of n after them; the digits stop early when nothing is left.  They are
\* worked out by halves, the first half first.
RECURSIVE Quotient(_, _, _)
Quotient(n, m, k) ==
    IF k = 0 \/ n = <<>> THEN [bits |-> <<>>, rem |-> n]
    ELSE IF k = 1
    THEN IF BigLe(m, n)
         THEN [bits |-> <<1>>,
               rem |-> BigDouble(StripLeadingZeros(Tail(
                           BigSub(n,
                                  [i \in 1..Len(n) |->
                                      IF i > Len(n) - Len(m)
                                      THEN m[i - (Len(n) - Len(m))] ELSE 0],
                                  1, Len(n), 0))))]
         ELSE [bits |-> <<0>>, rem |-> BigDouble(n)]
    ELSE LET first == Quotient(n, m, k \div 2)
             rest == Quotient(first.rem, m, k - k \div 2)
         IN [bits |-> first.bits \o rest.bits, rem |-> rest.rem]

\* a list of binary digits plus one in its last place: the last 0 becomes 1
\* and the digits after it 0; a carry out of the first digit makes the list
\* one longer
RoundUp(bits) ==
    IF \A i \in 1..Len(bits) : bits[i] = 1
    THEN <<1>> \o [i \in 1..Len(bits) |-> 0]
    ELSE [i \in 1..Len(bits) |->
             IF \E j \in (i + 1)..Len(bits) : bits[j] = 0 THEN bits[i]
             ELSE 1 - bits[i]]

\* an f64 as the comparisons of Expr::eval see it: its class (nan, inf, zero
\* or finite), its sign, and for a finite value the binary digits b1 b2 ... of
\* its significand (b1 = 1, no trailing zeros) and the exponent of
\* b1.b2b3... * 2^exp
F64(class, neg, bits, exp) ==
    [class |-> class, neg |-> neg, bits |-> bits, exp |-> exp]

\* the f64 for the binary digits q.bits of a magnitude in [2^e, 2^(e+1)), cut
\* after the last place an f64 has there: q.rem against m tells whether what
\* was cut is more than, exactly, or less than half of that place.  Rounding
\* may carry into 2^(e+1); from 2^1024 on the value is infinite.
Rounded(neg, e, q, m) ==
    IF BigLe(m, q.rem)
       /\ (q.rem # m \/ (q.bits # <<>> /\ q.bits[Len(q.bits)] = 1))
    THEN IF e + Len(RoundUp(q.bits)) - Len(q.bits) > 1023
         THEN F64("inf", neg, <<>>, 0)
         ELSE F64("finite", neg, StripTrailingZeros(RoundUp(q.bits)),
                  e + Len(RoundUp(q.bits)) - Len(q.bits))
    ELSE IF q.bits = <<>> THEN F64("zero", neg, <<>>, 0)
    ELSE F64("finite", neg, StripTrailingZeros(q.bits), e)

\* the f64 nearest to the magnitude n / m * 2^e, for n / m >= 1.  The
\* exponent is first raised until n / m < 2; the value then has 53 binary
\* digits from 2^-1022 on, below that the digits down to the place of
\* 2^-1074, and from 2^1024 on it is infinite.
RECURSIVE Binary(_, _, _, _)
Binary(neg, n, m, e) ==
    IF BigLe(BigDouble(m), n) THEN Binary(neg, n, BigDouble(m), e + 1)
    ELSE IF e < 0 - 1075 THEN F64("zero", neg, <<>>, 0)
    ELSE IF e > 1023 THEN F64("inf", neg, <<>>, 0)
    ELSE Rounded(neg, e,
                 Quotient(n, m, IF e < 0 - 1022 THEN e + 1075 ELSE 53),
                 m)

\* the f64 nearest to 0.d1d2... * 10^exp (d1 # 0, no trailing zeros).  From
\* 10^309 on the value is infinite and below 10^-324 it is zero.  Otherwise
\* the magnitude is the quotient of two naturals, digits * 10^(exp - Len) or
\* digits / 10^(Len - exp); it is at least 10^(exp - 1), and that is at least
\* 2^e for e = (exp - 1) * 3.3219 - 1 rounded down, so that the quotient
\* scaled by 2^-e is at least 1.
F64Finite(neg, digits, exp) ==
    IF digits = <<>> THEN F64("zero", neg, <<>>, 0)
    ELSE IF exp > 309 THEN F64("inf", neg, <<>>, 0)
    ELSE IF exp < 0 - 323 THEN F64("zero", neg, <<>>, 0)
    ELSE Binary(neg,
                BigShl(digits \o [i \in 1..(IF exp > Len(digits)
                                           THEN exp - Len(digits) ELSE 0) |-> 0],
                       1 - ((exp - 1) * 33219) \div 10000),
                BigShl(<<1>> \o [i \in 1..(IF Len(digits) > exp
                                         THEN Len(digits) - exp ELSE 0) |-> 0],
                       ((exp - 1) * 33219) \div 10000 - 1),
                ((exp - 1) * 33219) \div 10000 - 1)

\* the value of the decimal int.frac * 10^exp
Decimal(neg, int, frac, exp) ==
    LET ds == [i \in 1..(Len(int) + Len(frac)) |-> DigitValue((int \o frac)[i])]
    IN F64Finite(neg,
                 StripTrailingZeros(StripLeadingZeros(ds)),
                 Len(int) - (Len(ds) - Len(StripLeadingZeros(ds))) + exp)

\* the exponent part after the e: an optional sign and at least one digit,
\* up to the end of the string
ParseScientific(neg, int, frac, r) ==
    LET ds == IF r # <<>> /\ r[1] \in {"+", "-"} THEN Tail(r) ELSE r
    IN IF ds # <<>> /\ DigitRun(ds) = ds
       THEN Some(Decimal(neg, int, frac,
                         IF r[1] = "-" THEN 0 - ExponentValue(ds, 0)
                         ELSE ExponentValue(ds, 0)))
       ELSE None

\* what follows the digits: nothing, or an exponent
ParseExponent(neg, int, frac, r) ==
    IF Len(int) + Len(frac) = 0 THEN None
    ELSE IF r = <<>> THEN Some(Decimal(neg, int, frac, 0))
    ELSE IF r[1] \in {"e", "E"} THEN ParseScientific(neg, int, frac, Tail(r))
    ELSE None

\* what follows the integer digits: an optional point and fraction digits
ParseFraction(neg, int, r) ==
    LET frac == IF r # <<>> /\ r[1] = "." THEN DigitRun(Tail(r)) ELSE <<>>
    IN ParseExponent(neg, int, frac,
                     IF r # <<>> /\ r[1] = "."
                     THEN SubSeq(r, Len(frac) + 2, Len(r)) ELSE r)

\* the numeral after its sign: a decimal, or inf, infinity or nan in any
\* letter case (none of these words reads as a decimal)
ParseUnsigned(neg, u) ==
    IF u = <<>> THEN None
    ELSE IF to_lowercase(u) = <<"n", "a", "n">>
    THEN Some(F64("nan", neg, <<>>, 0))
    ELSE IF to_lowercase(u) \in {<<"i", "n", "f">>,
                                 <<"i", "n", "f", "i", "n", "i", "t", "y">>}
    THEN Some(F64("inf", neg, <<>>, 0))
    ELSE ParseFraction(neg, DigitRun(u), SubSeq(u, Len(DigitRun(u)) + 1, Len(u)))

\* str::parse::<f64>().ok(): an optional sign, then digits with an optional
\* point and an optional exponent, or inf, infinity or nan
ParseF64(s) ==
    ParseUnsigned(s # <<>> /\ s[1] = "-",
                  IF s # <<>> /\ s[1] \in {"+", "-"} THEN Tail(s) ELSE s)

\* -1, 0 or 1 as the value is negative, a zero or positive
F64Sign(x) == IF x.class = "zero" THEN 0 ELSE IF x.neg THEN 0 - 1 ELSE 1

\* |x| < |y| for values that are neither NaN nor zero
MagnitudeLt(x, y) ==
    IF x.class = "inf" THEN FALSE
    ELSE IF y.class = "inf" THEN TRUE
    ELSE IF x.exp # y.exp THEN x.exp < y.exp
    ELSE DigitsLt(x.bits, y.bits)

\* x < y on f64: false when either is NaN, and -0.0 equals 0.0
F64Lt(x, y) ==
    /\ x.class # "nan"
    /\ y.class # "nan"
    /\ IF F64Sign(x) # F64Sign(y) THEN F64Sign(x) < F64Sign(y)
       ELSE IF F64Sign(x) = 0 THEN FALSE
       ELSE IF F64Sign(x) = 1 THEN MagnitudeLt(x, y)
       ELSE MagnitudeLt(y, x)

\* the closure of the Gt and Lt arms: both strings parse (`.ok()?`, else the
\* arm is false) and the first value is below the second
BothLt(x, y) == IsSome(x) /\ IsSome(y) /\ F64Lt(Unwrap(x), Unwrap(y))

\* Regex::is_match for a pattern of literal characters: an unanchored search
IsMatchLiteral(pattern, v) ==
    \E i \in 1..(Len(v) + 1) :
        i + Len(pattern) - 1 <= Len(v)
        /\ SubSeq(v, i, i + Len(pattern) - 1) = pattern

\* Expr::eval; an expression is [op, key, value] (value a list for In)
ExprEval(expr, vs) ==
    IF expr.key \notin DOMAIN vs
    THEN expr.op = "Neq"
    ELSE LET v == vs[expr.key] IN
         CASE expr.op = "Eq" -> v = expr.value
           [] expr.op = "Neq" -> v # expr.value
           [] expr.op = "In" -> \E i \in 1..Len(expr.value) : expr.value[i] = v
           [] expr.op = "Regex" -> IsMatchLiteral(expr.value, v)
           [] expr.op = "Gt" -> BothLt(ParseF64(expr.value), ParseF64(v))
           [] expr.op = "Lt" -> BothLt(ParseF64(v), ParseF64(expr.value))

\* a FilterFn is user code; the model names the closures it uses
ApplyFilter(f, vs, opts) ==
    CASE f = "accept" -> TRUE
      [] f = "reject" -> FALSE
      [] f = "host_is_lowercase" ->
            IsSome(opts.host) /\ Unwrap(opts.host) = to_lowercase(Unwrap(opts.host))
      [] f = "has_vars" -> DOMAIN vs # {}
      [] f = "k_is_1" -> "k" \in DOMAIN vs /\ vs["k"] = <<"1">>

\* -------------------------------------------------------------- path parser
\* a plausible slip: a pattern with a wildcard and no parameter is classed as
\* an exact path under its prefix
parse_path_wildcard_equal(path) ==
    IF FindChar(path, ":") # 0
    THEN [path |-> SubSeq(path, 1, FindChar(path, ":") - 1),
          path_op |-> "PrefixMatch", has_param |-> TRUE]
    ELSE IF FindChar(path, "*") # 0
    THEN [path |-> SubSeq(path, 1, FindChar(path, "*") - 1),
          path_op |-> "Equal", has_param |-> FALSE]
    ELSE [path |-> path, path_op |-> "Equal", has_param |-> FALSE]

\* RadixRouter::parse_path: (actual_path, path_op, has_param)
parse_path(path) ==
    IF FindChar(path, ":") # 0
    THEN [path |-> SubSeq(path, 1, FindChar(path, ":") - 1),
          path_op |-> "PrefixMatch", has_param |-> TRUE]
    ELSE IF FindChar(path, "*") # 0
    THEN [path |-> SubSeq(path, 1, FindChar(path, "*") - 1),
          path_op |-> "PrefixMatch",
          has_param |-> FindChar(path, "*") # Len(path)]
    ELSE [path |-> path, path_op |-> "Equal", has_param |-> FALSE]

\* str::split('/')
RECURSIVE Split(_)
Split(s) ==
    IF FindChar(s, "/") = 0 THEN <<s>>
    ELSE <<SubSeq(s, 1, FindChar(s, "/") - 1)>>
         \o Split(SubSeq(s, FindChar(s, "/") + 1, Len(s)))

\* a plausible slip: a :name segment compiles to (.*) instead of ([^/]+)
PartTokens_any(part) ==
    IF part = <<>> THEN <<>>
    ELSE IF part[1] = ":" \/ part[1] = "*" THEN <<[t |-> "wild"]>>
    ELSE [i \in 1..Len(part) |-> [t |-> "lit", c |-> part[i]]]

\* the regex fragment of one path segment, as a list of tokens
PartTokens(part) ==
    IF part = <<>> THEN <<>>
    ELSE IF part[1] = ":" THEN <<[t |-> "param"]>>
    ELSE IF part[1] = "*" THEN <<[t |-> "wild"]>>
    ELSE [i \in 1..Len(part) |-> [t |-> "lit", c |-> part[i]]]

\* the capture name of one path segment, if it declares one
PartNames(part) ==
    IF part = <<>> THEN <<>>
    ELSE IF part[1] = ":" THEN <<SubSeq(part, 2, Len(part))>>
    ELSE IF part[1] = "*"
         THEN IF Len(part) > 1 THEN <<SubSeq(part, 2, Len(part))>>
              ELSE <<<<":", "e", "x", "t">>>>
    ELSE <<>>

RECURSIVE JoinTokens(_)
JoinTokens(parts) ==
    IF Len(parts) = 1 THEN PartTokens(parts[1])
    ELSE PartTokens(parts[1]) \o <<[t |-> "lit", c |-> "/"]>>
         \o JoinTokens(Tail(parts))

RECURSIVE JoinNames(_)
JoinNames(parts) ==
    IF parts = <<>> THEN <<>>
    ELSE PartNames(parts[1]) \o JoinNames(Tail(parts))

\* RadixRouter::generate_pattern: the anchored regex (its tokens) and the names
generate_pattern(path) ==
    [pattern |-> JoinTokens(Split(path)), names |-> JoinNames(Split(path))]

\* Regex::captures of an anchored pattern against the whole of s, from token i
\* and position j: ([^/]+) and (.*) are greedy, and . matches no line feed
RECURSIVE RegexMatch(_, _, _, _)
RegexMatch(toks, s, i, j) ==
    IF i > Len(toks)
    THEN [ok |-> j = Len(s) + 1, caps |-> <<>>]
    ELSE IF toks[i].t = "lit"
    THEN IF j <= Len(s) /\ s[j] = toks[i].c
         THEN RegexMatch(toks, s, i + 1, j + 1)
         ELSE [ok |-> FALSE, caps |-> <<>>]
    ELSE LET bad == IF toks[i].t = "param" THEN "/" ELSE "\n"
             least == IF toks[i].t = "param" THEN j + 1 ELSE j
             ends == {k \in least..(Len(s) + 1) :
                         /\ \A x \in j..(k - 1) : s[x] # bad
                         /\ RegexMatch(toks, s, i + 1, k).ok}
         IN IF ends = {} THEN [ok |-> FALSE, caps |-> <<>>]
            ELSE LET k == CHOOSE e \in ends : \A o \in ends : o <= e
                 IN [ok |-> TRUE,
                     caps |-> <<SubSeq(s, j, k - 1)>>
                              \o RegexMatch(toks, s, i + 1, k).caps]

\* ------------------------------------------------------------------- maps
\* HashMap::new
EmptyMap == [x \in {} |-> x]

\* HashMap::insert
MapPut(m, k, v) == [x \in DOMAIN m \cup {k} |-> IF x = k THEN v ELSE m[x]]

\* HashMap::remove
MapDel(m, k) == [x \in DOMAIN m \ {k} |-> m[x]]

\* ------------------------------------------------------------ route records
\* RadixRouter::process_route: the RouteOpts of one (route, path) pair
process_route(path, route) ==
    LET parsed == parse_path(path) IN
    [id |-> route.id,
     path |-> parsed.path,
     path_org |-> path,
     path_op |-> parsed.path_op,
     has_param |-> parsed.has_param,
     methods |-> IF IsSome(route.methods) THEN Unwrap(route.methods) ELSE {},
     hosts |-> IF IsSome(route.hosts)
               THEN Some([i \in 1..Len(Unwrap(route.hosts)) |->
                             HostPatternNew(Unwrap(route.hosts)[i])])
               ELSE None,
     vars |-> route.vars,
     filter_fn |-> route.filter_fn,
     priority |-> route.priority,
     metadata |-> route.metadata,
     compiled_pattern |-> IF parsed.has_param THEN Some(generate_pattern(path))
                          ELSE None]

\* a plausible slip: the comparator puts the lower priority first
cmp_priority_ascending(a, b) ==
    IF a.priority < b.priority THEN "Less"
    ELSE IF a.priority > b.priority THEN "Greater"
    ELSE IF Len(b.path_org) < Len(a.path_org) THEN "Less"
    ELSE IF Len(b.path_org) > Len(a.path_org) THEN "Greater"
    ELSE "Equal"

\* RouteOpts::cmp_priority: the Ordering of a against b
cmp_priority(a, b) ==
    IF b.priority < a.priority THEN "Less"
    ELSE IF b.priority > a.priority THEN "Greater"
    ELSE IF Len(b.path_org) < Len(a.path_org) THEN "Less"
    ELSE IF Len(b.path_org) > Len(a.path_org) THEN "Greater"
    ELSE "Equal"

\* a plausible slip: a sort that puts a new element before the elements it
\* compares equal to
RECURSIVE sort_by_unstable(_)
sort_by_unstable(l) ==
    IF Len(l) <= 1 THEN l
    ELSE LET s == sort_by_unstable(SubSeq(l, 1, Len(l) - 1))
             x == l[Len(l)]
             n == Cardinality({i \in 1..Len(s) : cmp_priority(s[i], x) = "Less"})
         IN SubSeq(s, 1, n) \o <<x>> \o SubSeq(s, n + 1, Len(s))

\* slice::sort_by(cmp_priority): a stable sort
RECURSIVE sort_by(_)
sort_by(l) ==
    IF Len(l) <= 1 THEN l
    ELSE LET s == sort_by(SubSeq(l, 1, Len(l) - 1))
             x == l[Len(l)]
             n == Cardinality({i \in 1..Len(s) : cmp_priority(s[i], x) # "Greater"})
         IN SubSeq(s, 1, n) \o <<x>> \o SubSeq(s, n + 1, Len(s))

\* Vec::retain(|r| r.id != id)
RECURSIVE retain(_, _)
retain(l, id) ==
    IF l = <<>> THEN <<>>
    ELSE IF l[1].id # id THEN <<l[1]>> \o retain(Tail(l), id)
    ELSE retain(Tail(l), id)

\* ------------------------------------------------------ prefix-tree primitive
\* The C radix tree behind src/src/ffi.rs: a mapping from keys to payloads.
\* RadixTreeRaw::find
TreeFind(t, key) == IF key \in DOMAIN t THEN Some(t[key]) ELSE None

\* RadixTreeRaw::insert: false when the key already exists
TreeInsert(t, key, idx) ==
    IF key \in DOMAIN t THEN [ok |-> FALSE, tree |-> t]
    ELSE [ok |-> TRUE, tree |-> MapPut(t, key, idx)]

\* RadixTreeRaw::remove (remove_route never gets the write lock it calls it
\* under)
TreeRemove(t, key) == MapDel(t, key)

\* RadixIterator::search then tree_up until None: the payloads of the keys that
\* are prefixes of the path, the longest key first
RECURSIVE TreeUpFrom(_, _, _)
TreeUpFrom(t, path, n) ==
    IF n < 0 THEN <<>>
    ELSE (IF SubSeq(path, 1, n) \in DOMAIN t /\ t[SubSeq(path, 1, n)] > 0
          THEN <<t[SubSeq(path, 1, n)]>> ELSE <<>>)
         \o TreeUpFrom(t, path, n - 1)

TreeUp(t, path) == TreeUpFrom(t, path, Len(path))

\* a plausible slip: no cursor is obtained for a tree that holds no key
TreeNewIterator_needs_keys(t) == DOMAIN t # {}

\* RadixTreeRaw::new_iterator: whether a traversal cursor is obtained
TreeNewIterator(t) == TRUE

\* ------------------------------------------------------------------ router
\* RadixRouter::new(vec![])
NewRouter ==
    [tree |-> EmptyMap, match_data |-> EmptyMap, match_data_index |-> 0,
     hash_path |-> EmptyMap]

\* how a call ends: Ok(()), Err(..), or stuck, which is the call asking for the
\* write lock of self.tree while it holds the read lock of self.tree itself;
\* r is the router as the call leaves it
Ok(R) == [ok |-> TRUE, stuck |-> FALSE, r |-> R]
Err(R) == [ok |-> FALSE, stuck |-> FALSE, r |-> R]
Stuck(R) == [ok |-> FALSE, stuck |-> TRUE, r |-> R]

\* RadixRouter::insert_route
insert_route(R, path, route) ==
    LET route_opts == process_route(path, route)
        found == TreeFind(R.tree, route_opts.path)
        idx == R.match_data_index + 1
        ins == TreeInsert(R.tree, route_opts.path, idx)
    IN IF route_opts.path_op = "Equal"
       THEN LET routes == IF route_opts.path \in DOMAIN R.hash_path
                          THEN R.hash_path[route_opts.path] ELSE <<>>
            IN Ok([R EXCEPT !.hash_path =
                      MapPut(@, route_opts.path,
                             sort_by(Append(routes, route_opts)))])
       ELSE IF IsSome(found) /\ Unwrap(found) \in DOMAIN R.match_data
       THEN Ok([R EXCEPT !.match_data[Unwrap(found)] =
                   sort_by(Append(@, route_opts))])
       ELSE LET R1 == [R EXCEPT !.match_data_index = idx,
                                !.match_data = MapPut(@, idx, <<route_opts>>)]
            IN IF ins.ok THEN Ok([R1 EXCEPT !.tree = ins.tree]) ELSE Err(R1)

\* RadixRouter::add_route: the paths in order, stopping at the first error
RECURSIVE add_paths(_, _, _)
add_paths(R, paths, route) ==
    IF paths = <<>> THEN Ok(R)
    ELSE LET res == insert_route(R, paths[1], route)
         IN IF res.ok THEN add_paths(res.r, Tail(paths), route) ELSE res

add_route(R, route) == add_paths(R, route.paths, route)

\* RadixRouter::remove_route.  In the tree branch the read guard of
\* self.tree.read() in the scrutinee of `if let Some(idx) = ...find(..)` lives
\* to the end of the body: when the list is emptied the body removes the
\* match_data entry and asks for self.tree.write() with the guard still held.
\* That request never yields the lock (it blocks for ever or panics), so the
\* key stays in the tree and the call does not return Ok: it is stuck.
remove_route(R, path, route) ==
    LET route_opts == process_route(path, route)
        found == TreeFind(R.tree, route_opts.path)
    IN IF route_opts.path_op = "Equal"
       THEN IF route_opts.path \in DOMAIN R.hash_path
            THEN LET routes == retain(R.hash_path[route_opts.path], route_opts.id)
                 IN IF routes = <<>>
                    THEN Ok([R EXCEPT !.hash_path = MapDel(@, route_opts.path)])
                    ELSE Ok([R EXCEPT !.hash_path[route_opts.path] = routes])
            ELSE Err(R)
       ELSE IF IsSome(found) /\ Unwrap(found) \in DOMAIN R.match_data
       THEN LET idx == Unwrap(found)
                routes == retain(R.match_data[idx], route_opts.id)
            IN IF routes = <<>>
               THEN Stuck([R EXCEPT !.match_data = MapDel(@, idx)])
               ELSE Ok([R EXCEPT !.match_data[idx] = routes])
       ELSE Err(R)

\* RadixRouter::delete_route: the paths in order, stopping at the first path
\* that does not return Ok
RECURSIVE delete_paths(_, _, _)
delete_paths(R, paths, route) ==
    IF paths = <<>> THEN Ok(R)
    ELSE LET res == remove_route(R, paths[1], route)
         IN IF res.ok THEN delete_paths(res.r, Tail(paths), route) ELSE res

delete_route(R, route) == delete_paths(R, route.paths, route)

\* a plausible slip: the new route is added even though the delete failed
update_route_ignoring_error(R, old_route, new_route) ==
    add_route(delete_route(R, old_route).r, new_route)

\* RadixRouter::update_route
update_route(R, old_route, new_route) ==
    LET del == delete_route(R, old_route)
    IN IF del.ok THEN add_route(del.r, new_route) ELSE del

\* ----------------------------------------------------------------- matcher
\* the keys the matcher writes besides the capture names
K_path == <<"_", "p", "a", "t", "h">>
K_method == <<"_", "m", "e", "t", "h", "o", "d">>
K_host == <<"_", "h", "o", "s", "t">>

\* the captures inserted in order, a later name overwriting an earlier one
RECURSIVE InsertCaptures(_, _, _)
InsertCaptures(matched, names, caps) ==
    IF names = <<>> \/ caps = <<>> THEN matched
    ELSE InsertCaptures(MapPut(matched, names[1], caps[1]), Tail(names), Tail(caps))

\* RadixRouter::compare_param
compare_param(req_path, route, matched) ==
    IF ~route.has_param THEN [ok |-> TRUE, matched |-> matched]
    ELSE IF ~IsSome(route.compiled_pattern) THEN [ok |-> TRUE, matched |-> matched]
    ELSE LET compiled == Unwrap(route.compiled_pattern)
             captures == RegexMatch(compiled.pattern, req_path, 1, 1)
         IN IF compiled.names = <<>> THEN [ok |-> TRUE, matched |-> matched]
            ELSE IF captures.ok
            THEN [ok |-> TRUE,
                  matched |-> InsertCaptures(matched, compiled.names, captures.caps)]
            ELSE [ok |-> FALSE, matched |-> matched]

\* match_route_opts, step 1: the HTTP method
method_step(route, opts) ==
    IF route.methods # {} /\ IsSome(opts.method)
    THEN IF IsSome(from_str(Unwrap(opts.method)))
         THEN Unwrap(from_str(Unwrap(opts.method))) \in route.methods
         ELSE FALSE
    ELSE TRUE

\* match_route_opts, step 2: the first host pattern that matches, 0 when none
host_step(route, opts) ==
    IF ~IsSome(opts.host) THEN 0
    ELSE LET hosts == Unwrap(route.hosts)
             hits == {i \in 1..Len(hosts) : HostMatches(hosts[i], Unwrap(opts.host))}
         IN IF hits = {} THEN 0 ELSE CHOOSE i \in hits : \A j \in hits : i <= j

\* match_route_opts, step 4: the variable expressions
vars_step(route, opts) ==
    IF IsSome(route.vars)
    THEN IF IsSome(opts.vars)
         THEN \A i \in 1..Len(Unwrap(route.vars)) :
                 ExprEval(Unwrap(route.vars)[i], Unwrap(opts.vars))
         ELSE FALSE
    ELSE TRUE

\* match_route_opts, step 5: the custom filter function
filter_step(route, opts) ==
    IF IsSome(route.filter_fn)
    THEN ApplyFilter(Unwrap(route.filter_fn),
                     IF IsSome(opts.vars) THEN Unwrap(opts.vars) ELSE EmptyMap,
                     opts)
    ELSE TRUE

\* a plausible slip: the filter_fn is called before the variable expressions
match_route_opts_filter_first(route, path, opts, matched) ==
    LET m1 == IF IsSome(opts.method)
              THEN MapPut(matched, K_method, Unwrap(opts.method)) ELSE matched
        h == IF IsSome(route.hosts) THEN host_step(route, opts) ELSE 0
        m2 == IF IsSome(route.hosts) /\ h # 0
              THEN MapPut(m1, K_host,
                          IF Unwrap(route.hosts)[h].is_wildcard
                          THEN <<"*">> \o Unwrap(route.hosts)[h].pattern
                          ELSE Unwrap(opts.host))
              ELSE m1
        p == compare_param(path, route, m2)
    IN IF ~method_step(route, opts)
       THEN [ok |-> FALSE, matched |-> matched, filtered |-> FALSE]
       ELSE IF IsSome(route.hosts) /\ h = 0
       THEN [ok |-> FALSE, matched |-> m1, filtered |-> FALSE]
       ELSE IF ~p.ok
       THEN [ok |-> FALSE, matched |-> p.matched, filtered |-> FALSE]
       ELSE [ok |-> filter_step(route, opts) /\ vars_step(route, opts),
             matched |-> p.matched, filtered |-> IsSome(route.filter_fn)]

\* RadixRouter::match_route_opts: whether the candidate passes, the matched map
\* it leaves, and whether its filter_fn was called
match_route_opts(route, path, opts, matched) ==
    LET m1 == IF IsSome(opts.method)
              THEN MapPut(matched, K_method, Unwrap(opts.method)) ELSE matched
        h == IF IsSome(route.hosts) THEN host_step(route, opts) ELSE 0
        m2 == IF IsSome(route.hosts) /\ h # 0
              THEN MapPut(m1, K_host,
                          IF Unwrap(route.hosts)[h].is_wildcard
                          THEN <<"*">> \o Unwrap(route.hosts)[h].pattern
                          ELSE Unwrap(opts.host))
              ELSE m1
        p == compare_param(path, route, m2)
    IN IF ~method_step(route, opts)
       THEN [ok |-> FALSE, matched |-> matched, filtered |-> FALSE]
       ELSE IF IsSome(route.hosts) /\ h = 0
       THEN [ok |-> FALSE, matched |-> m1, filtered |-> FALSE]
       ELSE IF ~p.ok
       THEN [ok |-> FALSE, matched |-> p.matched, filtered |-> FALSE]
       ELSE IF ~vars_step(route, opts)
       THEN [ok |-> FALSE, matched |-> p.matched, filtered |-> FALSE]
       ELSE [ok |-> filter_step(route, opts), matched |-> p.matched,
             filtered |-> IsSome(route.filter_fn)]

\* a plausible slip: the request is passed on with the host as supplied
normalized_as_given(opts) == opts

\* match_route's copy of the request with the host in lower case
normalized(opts) ==
    IF IsSome(opts.host)
    THEN [opts EXCEPT !.host = Some(to_lowercase(Unwrap(opts.host)))]
    ELSE opts

\* the candidate lists of the tree keys that tree_up yields, in that order
RECURSIVE TreeCandidates(_, _)
TreeCandidates(R, idxs) ==
    IF idxs = <<>> THEN <<>>
    ELSE (IF idxs[1] \in DOMAIN R.match_data
          THEN [i \in 1..Len(R.match_data[idxs[1]]) |->
                   [phase |-> 2, route |-> R.match_data[idxs[1]][i]]]
          ELSE <<>>)
         \o TreeCandidates(R, Tail(idxs))

\* a plausible slip: the tree is walked before the hash index is probed
CandidatesTreeFirst(R, path) ==
    TreeCandidates(R, TreeUp(R.tree, path))
    \o (IF path \in DOMAIN R.hash_path
        THEN [i \in 1..Len(R.hash_path[path]) |->
                 [phase |-> 1, route |-> R.hash_path[path][i]]]
        ELSE <<>>)

\* the candidates in the order match_route's two loops reach them: the hash
\* list of the path, then the lists of the tree walk
Candidates(R, path) ==
    (IF path \in DOMAIN R.hash_path
     THEN [i \in 1..Len(R.hash_path[path]) |->
              [phase |-> 1, route |-> R.hash_path[path][i]]]
     ELSE <<>>)
    \o TreeCandidates(R, TreeUp(R.tree, path))

\* a plausible slip: the matched map is not cleared after a rejected candidate
clear_nothing(matched) == matched

\* HashMap::clear
clear(matched) == EmptyMap

\* the two candidate loops of match_route from candidate i on, with the
\* matched map as the previous candidate left it: the index of the first
\* candidate that passes (0 when none), its matched map, and the candidates
\* whose filter_fn was called.  candidate_outcome is one turn of the loop with
\* r the value match_route_opts returned for candidate i: return on success,
\* matched.clear() and the next candidate otherwise.
RECURSIVE eval_candidates(_, _, _, _, _)
RECURSIVE candidate_outcome(_, _, _, _, _)
candidate_outcome(cands, path, opts, i, r) ==
    IF r.ok
    THEN [k |-> i, matched |-> r.matched,
          calls |-> IF r.filtered THEN <<i>> ELSE <<>>]
    ELSE [eval_candidates(cands, path, opts, i + 1, clear(r.matched))
              EXCEPT !.calls = (IF r.filtered THEN <<i>> ELSE <<>>) \o @]

eval_candidates(cands, path, opts, i, matched) ==
    IF i > Len(cands) THEN [k |-> 0, matched |-> matched, calls |-> <<>>]
    ELSE candidate_outcome(cands, path, opts, i,
                           match_route_opts(cands[i].route, path, opts, matched))

\* what match_route returns when its loops over the candidates cands ended as
\* ev says (eval_candidates): Err when the tree had to be walked and no
\* iterator could be had, Ok(None) when no candidate passed, else
\* Ok(Some(MatchResult)) of candidate ev.k with "_path" added
match_route_result(R, path, cands, ev) ==
    IF (ev.k = 0 \/ cands[ev.k].phase = 2) /\ ~TreeNewIterator(R.tree)
    THEN [err |-> TRUE, found |-> FALSE,
          visited |-> SelectSeq(cands, LAMBDA c : c.phase = 1),
          calls |-> SelectSeq(ev.calls, LAMBDA i : cands[i].phase = 1)]
    ELSE IF ev.k = 0
    THEN [err |-> FALSE, found |-> FALSE, visited |-> cands,
          calls |-> ev.calls]
    ELSE [err |-> FALSE,
          found |-> TRUE,
          metadata |-> cands[ev.k].route.metadata,
          matched |-> MapPut(ev.matched, K_path,
                             IF cands[ev.k].phase = 1 THEN path
                             ELSE cands[ev.k].route.path_org),
          route |-> cands[ev.k].route,
          phase |-> cands[ev.k].phase,
          visited |-> SubSeq(cands, 1, ev.k),
          calls |-> ev.calls]

\* RadixRouter::match_route: Ok(Some(MatchResult)), Ok(None) or Err.  Besides
\* the result the record keeps the candidates that were evaluated (visited),
\* those whose filter_fn was called (calls), and the record and phase of the
\* one returned.  The tree is walked, and an iterator obtained for it, when no
\* candidate of the hash list passes.
match_route(R, path, opts) ==
    match_route_result(R, path, Candidates(R, path),
                       eval_candidates(Candidates(R, path), path,
                                       normalized(opts), 1, EmptyMap))

\* ------------------------------------------------------- the model's inputs
P_ab == <<"/", "a", "/", "b">>
P_a_star == <<"/", "a", "/", "*">>
P_star == <<"/", "*">>
P_x == <<"/", ":", "x">>

\* the paths lists of the route descriptors: one path of each kind, two paths
\* under one tree key, the same exact path twice
PathLists ==
    {<<P_ab>>, <<P_a_star>>, <<P_star>>, <<P_x>>, <<P_star, P_x>>, <<P_ab, P_ab>>}

\* two routes: r1 takes any method at priority 0, r2 takes GET at priority 1
RouteKinds ==
    {[id |-> "r1", methods |-> None, priority |-> 0],
     [id |-> "r2", methods |-> Some({"GET"}), priority |-> 1]}

\* RadixNode: the route descriptors offered to add, delete and update
Routes ==
    {[id |-> k.id, paths |-> p, methods |-> k.methods, hosts |-> None,
      remote_addrs |-> None, vars |-> None, filter_fn |-> None,
      priority |-> k.priority, metadata |-> "handler"] :
        k \in RouteKinds, p \in PathLists}

\* update_route's inputs: a route and its replacement under the same id
UpdatePairs == {pair \in Routes \X Routes : pair[1].id = pair[2].id}

RequestPaths == {P_ab, <<"/", "b">>, <<"/", "a", "/">>, <<>>}

\* RadixMatchOpts: the requests offered to match_route
Requests ==
    [method : {None, Some(<<"g", "e", "t">>), Some(<<"P", "O", "S", "T">>)},
     host : {None}, remote_addr : {None}, vars : {None}]

\* ------------------------------------------------------------ state machine
\* the router as one record
Router ==
    [tree |-> tree, match_data |-> match_data,
     match_data_index |-> match_data_index, hash_path |-> hash_path]

RECURSIVE SumLen(_, _)
SumLen(m, keys) ==
    IF keys = {} THEN 0
    ELSE LET k == CHOOSE x \in keys : TRUE
         IN Len(m[k]) + SumLen(m, keys \ {k})

\* the number of records the two indices hold
NumRecords(R) ==
    SumLen(R.hash_path, DOMAIN R.hash_path) + SumLen(R.match_data, DOMAIN R.match_data)

WithinBounds(R) ==
    NumRecords(R) <= MaxRecords /\ R.match_data_index <= MaxIndex

\* the threads of the concurrency model: the calls of match_route in progress,
\* the mutator call in progress, and the tree iterators
threads == <<readers, writer, iters>>

ReaderIds == {"t1", "t2"}

Install(R) ==
    /\ tree' = R.tree
    /\ match_data' = R.match_data
    /\ match_data_index' = R.match_data_index
    /\ hash_path' = R.hash_path

Init ==
    /\ tree = NewRouter.tree
    /\ match_data = NewRouter.match_data
    /\ match_data_index = NewRouter.match_data_index
    /\ hash_path = NewRouter.hash_path
    /\ last = [op |-> "new"]
    /\ readers = [t \in ReaderIds |-> [pc |-> "idle"]]
    /\ writer = [pc |-> "idle", op |-> "none", atomic |-> TRUE]
    /\ iters = [t \in ReaderIds |-> 0]

\* a mutator call is blocked for ever inside the router, which it borrows
\* exclusively: no other call can be made
Blocked == writer.pc = "blocked"

\* how a call that ended as res ends for its caller: it returns, or, when it
\* is stuck requesting a lock its own thread holds, it blocks for ever or it
\* panics (std::sync::RwLock: "might panic or deadlock")
Outcomes(res) == IF res.stuck THEN {"blocked", "panicked"} ELSE {"returned"}

\* the end of a mutator call with the result res; note is what is recorded of
\* the call besides its result
Conclude(res, note) ==
    \E outcome \in Outcomes(res) :
        /\ Install(res.r)
        /\ writer' = IF outcome = "blocked"
                     THEN [pc |-> "blocked", op |-> note.op, atomic |-> TRUE]
                     ELSE writer
        /\ UNCHANGED <<readers, iters>>
        /\ last' = [ok |-> res.ok, outcome |-> outcome] @@ note

AddRoute(route) ==
    /\ ~Blocked
    /\ WithinBounds(add_route(Router, route).r)
    /\ Conclude(add_route(Router, route), [op |-> "add"])

DeleteRoute(route) ==
    /\ ~Blocked
    /\ Conclude(delete_route(Router, route), [op |-> "delete"])

UpdateRoute(old_route, new_route) ==
    /\ ~Blocked
    /\ WithinBounds(update_route(Router, old_route, new_route).r)
    /\ Conclude(update_route(Router, old_route, new_route), [op |-> "update"])

MatchRoute(path, opts) ==
    /\ ~Blocked
    /\ last' = [op |-> "match", path |-> path, opts |-> opts,
                res |-> match_route(Router, path, opts)]
    /\ UNCHANGED <<tree, match_data, match_data_index, hash_path, threads>>

Next ==
    \/ \E route \in Routes : AddRoute(route)
    \/ \E route \in Routes : DeleteRoute(route)
    \/ \E pair \in UpdatePairs : UpdateRoute(pair[1], pair[2])
    \/ \E path \in RequestPaths, opts \in Requests : MatchRoute(path, opts)

Spec == Init /\ [][Next]_vars

\* ------------------------------------------------ what the claims speak of
\* the elements of a list, as a set
Elems(l) == {l[i] : i \in 1..Len(l)}

\* every record the two indices hold
AllRecords(R) ==
    UNION ({Elems(R.hash_path[p]) : p \in DOMAIN R.hash_path}
           \cup {Elems(R.match_data[i]) : i \in DOMAIN R.match_data})

\* every criterion of the record passes for the request: its path (the exact
\* path, or the key being a prefix and the parameters matching), method, host,
\* vars and filter_fn
Eligible(rec, path, opts) ==
    /\ IF rec.path_op = "Equal" THEN rec.path = path ELSE StartsWith(path, rec.path)
    /\ match_route_opts(rec, path, normalized(opts), EmptyMap).ok

\* the records of the candidate lists: the lists of hash_path and the lists of
\* match_data that a key of the tree leads to
ListedRecords(R) ==
    UNION ({Elems(R.hash_path[p]) : p \in DOMAIN R.hash_path}
           \cup {Elems(R.match_data[R.tree[k]]) :
                    k \in {x \in DOMAIN R.tree : R.tree[x] \in DOMAIN R.match_data}})

EligibleRecords(R, path, opts) ==
    {rec \in ListedRecords(R) : Eligible(rec, path, opts)}

\* two records sit in the same candidate list
SameList(a, b) == a.path_op = b.path_op /\ a.path = b.path

\* what the caller of match_route receives
Reply(res) ==
    IF res.found
    THEN [err |-> FALSE, found |-> TRUE, metadata |-> res.metadata,
          matched |-> res.matched]
    ELSE [err |-> res.err, found |-> FALSE]

\* a sequence is sorted by descending priority, then descending path_org length
SortedList(l) ==
    \A i, j \in 1..Len(l) :
        i < j => \/ l[i].priority > l[j].priority
                 \/ /\ l[i].priority = l[j].priority
                    /\ Len(l[i].path_org) >= Len(l[j].path_org)

\* -------------------------------------------------------------------- C1
\* C1 as stated: match_route returns the route of the highest priority among
\* ALL registered records whose every criterion passes, whichever index or
\* path_key holds them, and among equal priorities the longest path_original.
C1_HighestOfAll ==
    \A path \in RequestPaths, opts \in Requests :
        LET res == match_route(Router, path, opts)
            el == EligibleRecords(Router, path, opts)
        IN el # {} =>
              /\ res.found
              /\ \A rec \in el :
                    \/ res.route.priority > rec.priority
                    \/ /\ res.route.priority = rec.priority
                       /\ Len(res.route.path_org) >= Len(rec.path_org)

\* C1 (amended): match_route returns a route iff some registered record passes
\* every criterion; the route returned has the highest priority, and among
\* equal priorities the longest path_original, among the passing records of
\* its own candidate list, and every passing record of another list sits in a
\* list visited later (a tree list after the hash list, a shorter tree key
\* after a longer one).
C1_HighestOfFirstList ==
    \A path \in RequestPaths, opts \in Requests :
        LET res == match_route(Router, path, opts)
            el == EligibleRecords(Router, path, opts)
        IN /\ res.found <=> el # {}
           /\ res.found =>
                /\ res.route \in el
                /\ \A rec \in el :
                      IF SameList(rec, res.route)
                      THEN \/ res.route.priority > rec.priority
                           \/ /\ res.route.priority = rec.priority
                              /\ Len(res.route.path_org) >= Len(rec.path_org)
                      ELSE /\ rec.path_op = "PrefixMatch"
                           /\ \/ res.route.path_op = "Equal"
                              \/ Len(rec.path) < Len(res.route.path)

\* a match_route call returned a route whose list holds another passing record
\* of lower priority, while a passing record of higher priority sits in a list
\* visited later
C1_Witness ==
    /\ last.op = "match"
    /\ last.res.found
    /\ LET el == EligibleRecords(Router, last.path, last.opts)
       IN /\ \E rec \in el : /\ SameList(rec, last.res.route)
                             /\ rec.priority < last.res.route.priority
          /\ \E rec \in el : ~SameList(rec, last.res.route)

\* -------------------------------------------------------------------- C2
\* the order the claim gives: the hash list of the exact path in stored order,
\* then the lists of the tree keys that are prefixes of the path, the longest
\* key first, each in stored order
RECURSIVE C2_TreeOrder(_, _, _)
C2_TreeOrder(R, path, n) ==
    IF n < 0 THEN <<>>
    ELSE (IF SubSeq(path, 1, n) \in DOMAIN R.tree
             /\ R.tree[SubSeq(path, 1, n)] \in DOMAIN R.match_data
          THEN R.match_data[R.tree[SubSeq(path, 1, n)]] ELSE <<>>)
         \o C2_TreeOrder(R, path, n - 1)

C2_Order(R, path) ==
    (IF path \in DOMAIN R.hash_path THEN R.hash_path[path] ELSE <<>>)
    \o C2_TreeOrder(R, path, Len(path))

\* C2: within one match_route call the candidates are evaluated in the order
\* hash list, then tree lists by strictly decreasing key length, each in stored
\* order; the first candidate that passes is returned and none after it is
\* evaluated; so a passing candidate under a longer key wins over one under a
\* shorter key.
C2_VisitOrder ==
    \A path \in RequestPaths, opts \in Requests :
        LET res == match_route(Router, path, opts)
            order == C2_Order(Router, path)
            n == Len(res.visited)
            pass(rec) == match_route_opts(rec, path, normalized(opts), EmptyMap).ok
        IN /\ n <= Len(order)
           /\ \A i \in 1..n : res.visited[i].route = order[i]
           /\ \A i \in 1..n :
                 res.visited[i].phase = (IF order[i].path_op = "Equal" THEN 1 ELSE 2)
           /\ \A i \in 1..(n - 1) : ~pass(order[i])
           /\ IF res.found
              THEN pass(order[n]) /\ res.route = order[n]
              ELSE n = Len(order) /\ \A i \in 1..n : ~pass(order[i])
           /\ res.found =>
                \A rec \in EligibleRecords(Router, path, opts) :
                    rec.path_op = "PrefixMatch" /\ res.route.path_op = "PrefixMatch"
                        => Len(rec.path) <= Len(res.route.path)

\* a match_route call went through the hash list and a longer tree key, all
\* rejected, and returned a candidate of a shorter tree key
C2_Witness ==
    /\ last.op = "match"
    /\ last.res.found
    /\ \E i, j \in 1..Len(last.res.visited) :
          /\ i < j
          /\ last.res.visited[i].phase = 1
          /\ last.res.visited[j].phase = 2
          /\ Len(last.res.visited[j].route.path) > Len(last.res.route.path)

\* -------------------------------------------------------------------- C3
\* C3: a record with path_op Equal is returned by the hash probe only; the tree
\* walk is performed iff hash_path has no entry for the path or every candidate
\* of that entry was rejected; and when all exact candidates are rejected a
\* passing PrefixMatch candidate whose key is a prefix of the path is returned.
C3_ExactByHashOnly ==
    \A path \in RequestPaths, opts \in Requests :
        LET res == match_route(Router, path, opts)
            pass(rec) == match_route_opts(rec, path, normalized(opts), EmptyMap).ok
            hashRejected ==
                \/ path \notin DOMAIN Router.hash_path
                \/ \A rec \in Elems(Router.hash_path[path]) : ~pass(rec)
            walked == ~res.found \/ res.phase = 2
            prefixEl == {rec \in EligibleRecords(Router, path, opts) :
                            rec.path_op = "PrefixMatch"}
        IN /\ res.found /\ res.route.path_op = "Equal" =>
                res.phase = 1 /\ res.route.path = path
           /\ \A i \in 1..Len(res.visited) :
                 res.visited[i].phase = 2 =>
                     hashRejected /\ res.visited[i].route.path_op = "PrefixMatch"
           /\ walked <=> hashRejected
           /\ hashRejected /\ prefixEl # {} =>
                 res.found /\ res.phase = 2 /\ res.route \in prefixEl

\* a match_route call found the exact path registered, rejected every exact
\* candidate and returned a PrefixMatch candidate from the tree walk
C3_Witness ==
    /\ last.op = "match"
    /\ last.path \in DOMAIN hash_path
    /\ last.res.found
    /\ last.res.phase = 2
    /\ last.res.route.path_op = "PrefixMatch"
    /\ last.res.visited[1].phase = 1

\* -------------------------------------------------------------------- C4
\* C4: after any sequence of add_route, delete_route and update_route calls
\* every candidate list of hash_path and of match_data is sorted by descending
\* priority and, among equal priorities, by descending length of path_original.
C4_ListsSorted ==
    /\ \A p \in DOMAIN hash_path : SortedList(hash_path[p])
    /\ \A i \in DOMAIN match_data : SortedList(match_data[i])

\* an add or update left a tree list that holds records of two priorities and
\* two records of one priority with path_originals of different lengths
C4_Witness ==
    /\ last.op \in {"add", "update"}
    /\ last.ok
    /\ \E i \in DOMAIN match_data :
          /\ \E a, b \in Elems(match_data[i]) : a.priority # b.priority
          /\ \E a, b \in Elems(match_data[i]) :
                a.priority = b.priority /\ Len(a.path_org) # Len(b.path_org)

\* -------------------------------------------------------------------- C5
\* C5: the prefix tree and match_data are in bijection: every tree key maps to
\* a key of match_data whose list is non-empty and whose records all have
\* path_key equal to the tree key, every match_data key is the payload of
\* exactly one tree key, and hash_path holds no empty list.
C5_TreeBijection ==
    /\ \A k \in DOMAIN tree :
          /\ tree[k] \in DOMAIN match_data
          /\ match_data[tree[k]] # <<>>
          /\ \A rec \in Elems(match_data[tree[k]]) : rec.path = k
    /\ \A i \in DOMAIN match_data :
          Cardinality({k \in DOMAIN tree : tree[k] = i}) = 1
    /\ \A p \in DOMAIN hash_path : hash_path[p] # <<>>

\* -------------------------------------------------------------------- C6
\* the ids the router holds records of
UsedIds(R) == {rec.id : rec \in AllRecords(R)}

\* the record lists registered under the key of one path of a descriptor
ListUnder(R, path) ==
    LET parsed == parse_path(path)
    IN IF parsed.path_op = "Equal"
       THEN IF parsed.path \in DOMAIN R.hash_path
            THEN R.hash_path[parsed.path] ELSE <<>>
       ELSE IF parsed.path \in DOMAIN R.tree
                 /\ R.tree[parsed.path] \in DOMAIN R.match_data
            THEN R.match_data[R.tree[parsed.path]] ELSE <<>>

\* C6: for every reachable router state R and every route descriptor d with a
\* non-empty paths list whose id is not used in R, add_route(d) followed by
\* delete_route(d) both succeed and leave a router that gives the same
\* match_route result as R for every request.
C6_AddThenDeleteRestores ==
    \A d \in Routes :
        d.paths # <<>> /\ d.id \notin UsedIds(Router) =>
            LET added == add_route(Router, d)
                deleted == delete_route(added.r, d)
            IN /\ added.ok
               /\ deleted.ok
               /\ \A path \in RequestPaths, opts \in Requests :
                     Reply(match_route(deleted.r, path, opts))
                         = Reply(match_route(Router, path, opts))

\* -------------------------------------------------------------------- C7
\* C7: delete_route(d) returns an error whenever, for some path of d, no record
\* with id d.id is registered under that path's key, also when the candidate
\* list of that key exists and holds only records of other route ids.
C7_DeleteMissingIsError ==
    \A d \in Routes :
        (\E i \in 1..Len(d.paths) :
            \A rec \in Elems(ListUnder(Router, d.paths[i])) : rec.id # d.id)
            => ~delete_route(Router, d).ok /\ ~delete_route(Router, d).stuck

\* -------------------------------------------------------------------- C8
\* C8: for every route d that add_route added successfully, also one whose
\* paths share a path_key or repeat an exact path, delete_route(d) returns Ok
\* and afterwards no candidate list holds a record with id d.id.
C8_DeleteAfterAdd ==
    \A d \in Routes :
        d.id \notin UsedIds(Router) =>
            LET added == add_route(Router, d)
                deleted == delete_route(added.r, d)
            IN added.ok => deleted.ok /\ d.id \notin UsedIds(deleted.r)

\* -------------------------------------------------------------------- C9
\* C9: update_route(old, new) leaves the router in exactly the state that
\* delete_route(old) followed by add_route(new) produces, with that result; when
\* delete_route(old) returns an error, update_route returns the error and the
\* router is as the failed delete left it, with no record of new added.
C9_UpdateIsDeleteThenAdd ==
    \A old_route \in Routes, new_route \in Routes :
        LET updated == update_route(Router, old_route, new_route)
            deleted == delete_route(Router, old_route)
        IN IF deleted.ok
           THEN updated = add_route(deleted.r, new_route)
           ELSE updated = deleted

\* an update_route call failed on a router that holds records
C9_Witness ==
    /\ last.op = "update"
    /\ ~last.ok
    /\ AllRecords(Router) # {}

\* ------------------------------------------------------------------- C10
\* the method bitsets and the request methods of the method step's check:
\* known methods in several spellings, a known method outside every bitset,
\* and strings outside the known set
StepBitsets == SUBSET {"GET", "POST", "PUT"}

StepMethods ==
    {<<"G", "E", "T">>, <<"g", "e", "t">>, <<"G", "e", "t">>, <<"g", "E", "t">>,
     <<"P", "O", "S", "T">>, <<"p", "o", "s", "t">>, <<"P", "U", "T">>,
     <<"p", "u", "T">>, <<"D", "E", "L", "E", "T", "E">>,
     <<"d", "e", "l", "e", "t", "e">>, <<"F", "O", "O">>, <<"g", "e", "t", "s">>,
     <<"G", "E">>, <<>>}

\* match_route_opts' method step on one candidate and one request method
MethodStep(methods, method) ==
    LET route == [id |-> "r1", path |-> P_ab, path_org |-> P_ab,
                  path_op |-> "Equal", has_param |-> FALSE, methods |-> methods,
                  hosts |-> None, vars |-> None, filter_fn |-> None,
                  priority |-> 0, metadata |-> "handler",
                  compiled_pattern |-> None]
        opts == [method |-> Some(method), host |-> None, remote_addr |-> None,
                 vars |-> None]
    IN /\ last' = [op |-> "method_step", methods |-> methods, method |-> method,
                   pass |-> method_step(route, opts),
                   accepted |-> match_route_opts(route, P_ab, opts, EmptyMap).ok]
       /\ UNCHANGED <<tree, match_data, match_data_index, hash_path, threads>>

NextMethod == \E methods \in StepBitsets, method \in StepMethods : MethodStep(methods, method)

SpecMethod == Init /\ [][NextMethod]_vars

\* two characters are the same letter, whatever their case
SameLetter(x, y) ==
    \/ x = y
    \/ x \in DOMAIN UpperOf /\ UpperOf[x] = y
    \/ y \in DOMAIN UpperOf /\ UpperOf[y] = x

\* the string names the method, compared case-insensitively
NamesMethod(method, m) ==
    /\ Len(method) = Len(MethodSpelling(m))
    /\ \A i \in 1..Len(method) : SameLetter(method[i], MethodSpelling(m)[i])

\* C10: for a request that supplies a method m, a candidate whose method bitset
\* is empty passes the method step for every m, also one outside the known
\* set; a candidate whose bitset is non-empty passes iff m, compared
\* case-insensitively, names one of the ten known methods and that method's
\* bit is in the bitset.
C10_MethodStep ==
    last.op = "method_step" =>
        /\ last.accepted = last.pass
        /\ IF last.methods = {}
           THEN last.pass
           ELSE last.pass <=>
                   \E m \in MethodNames :
                       NamesMethod(last.method, m) /\ m \in last.methods

\* a method in lower case passed the step of a candidate with a non-empty bitset
C10_Witness ==
    /\ last.op = "method_step"
    /\ last.methods # {}
    /\ last.pass
    /\ \E m \in MethodNames :
          NamesMethod(last.method, m) /\ last.method # MethodSpelling(m)

\* ------------------------------------------------------------------- C11
\* C11: a candidate whose method bitset is non-empty is rejected for every
\* request that does not supply a method.
C11_NoMethodRejected ==
    last.op = "match" /\ ~IsSome(last.opts.method) /\ last.res.found =>
        last.res.route.methods = {}

\* ------------------------------------------------------------------- C12
\* the host lists and request hosts of the host step's check: literal and
\* wildcard patterns in both cases, the bare "*", and hosts that differ from
\* the patterns in case, in a label, or in length
H_ab == <<"a", ".", "b">>
H_AB == <<"A", ".", "B">>
H_star_b == <<"*", ".", "b">>
H_xb == <<"x", ".", "b">>

StepPatterns == {H_ab, H_AB, H_star_b, <<"*", ".", "B">>, <<"*">>, H_xb}

StepHostLists ==
    {None, Some(<<>>)}
    \cup {Some(<<p>>) : p \in StepPatterns}
    \cup {Some(<<p, q>>) : p \in {H_star_b, H_xb, H_AB}, q \in StepPatterns}

StepHosts ==
    {None, Some(H_ab), Some(H_AB), Some(H_xb), Some(<<"x", "A", ".", "B">>),
     Some(<<"b">>), Some(<<"a", ".", "c">>), Some(<<>>)}

\* a route with the host list is registered at an exact path and a request
\* with the host is matched against it
HostStep(hosts, host) ==
    LET route == [id |-> "r1", paths |-> <<P_ab>>, methods |-> None,
                  hosts |-> hosts, remote_addrs |-> None, vars |-> None,
                  filter_fn |-> None, priority |-> 0, metadata |-> "handler"]
        opts == [method |-> None, host |-> host, remote_addr |-> None,
                 vars |-> None]
    IN /\ last' = [op |-> "host_step", hosts |-> hosts, host |-> host,
                   res |-> match_route(add_route(NewRouter, route).r, P_ab, opts)]
       /\ UNCHANGED <<tree, match_data, match_data_index, hash_path, threads>>

NextHost == \E hosts \in StepHostLists, host \in StepHosts : HostStep(hosts, host)

SpecHost == Init /\ [][NextHost]_vars

\* two strings are equal up to the case of their letters
SameText(a, b) ==
    Len(a) = Len(b) /\ \A i \in 1..Len(a) : SameLetter(a[i], b[i])

\* the pattern, as the route descriptor spells it, matches the host: a
\* pattern "*suffix" when the host ends with the suffix, any other pattern
\* when it equals the host, both compared without regard to case
PatternMatchesHost(pattern, h) ==
    IF pattern # <<>> /\ pattern[1] = "*"
    THEN /\ Len(pattern) - 1 <= Len(h)
         /\ SameText(SubSeq(h, Len(h) - Len(pattern) + 2, Len(h)), Tail(pattern))
    ELSE SameText(h, pattern)

\* C12: a candidate with a host list passes the host step iff the request
\* supplies a host h and some pattern of the list matches it (a literal iff
\* lowercase(h) equals the lowercased pattern, a wildcard "*suffix" iff
\* lowercase(h) ends with the lowercased suffix); a request without a host is
\* rejected; a candidate without a host list passes for every request.
C12_HostStep ==
    last.op = "host_step" =>
        (last.res.found <=>
            IF IsSome(last.hosts)
            THEN /\ IsSome(last.host)
                 /\ \E i \in 1..Len(Unwrap(last.hosts)) :
                       PatternMatchesHost(Unwrap(last.hosts)[i], Unwrap(last.host))
            ELSE TRUE)

\* a host in upper case passed through a wildcard pattern written in lower
\* case that follows a literal pattern which did not match
C12_Witness ==
    /\ last.op = "host_step"
    /\ last.hosts = Some(<<H_xb, H_star_b>>)
    /\ last.host = Some(H_AB)
    /\ last.res.found

\* ------------------------------------------------------------------- C13
\* the first pattern of the list that matches the host
FirstMatching(hosts, h) ==
    hosts[CHOOSE i \in 1..Len(hosts) :
              /\ PatternMatchesHost(hosts[i], h)
              /\ \A j \in 1..(i - 1) : ~PatternMatchesHost(hosts[j], h)]

\* C13: when a candidate with a host list is returned, matched["_host"] is
\* "*" followed by the suffix when the first matching pattern is a wildcard,
\* and is the request host exactly as the caller supplied it (original letter
\* case) when the first matching pattern is a literal.
C13_HostRecorded ==
    last.op = "host_step" /\ last.res.found /\ IsSome(last.hosts) =>
        LET first == FirstMatching(Unwrap(last.hosts), Unwrap(last.host))
        IN /\ K_host \in DOMAIN last.res.matched
           /\ IF first # <<>> /\ first[1] = "*"
              THEN SameText(last.res.matched[K_host], first)
              ELSE last.res.matched[K_host] = Unwrap(last.host)

\* ------------------------------------------------------------------- C14
\* the patterns of the path step's check: :name segments between, after and
\* before literal segments; a trailing *name; a trailing bare *
P_axb == <<"/", "a", "/", ":", "x", "/", "b">>

ParamPatterns ==
    {P_axb, <<"/", ":", "x", "/", ":", "y">>, P_x,
     <<"/", "a", "/", ":", "x", "/">>}
NamedWildPatterns == {<<"/", "a", "/", "*", "r">>, <<"/", "*", "r">>}
BareWildPatterns == {P_a_star, P_star}

\* the characters of the request paths: the separator, the letters of the
\* patterns, another letter, and a line feed
StepPaths == UNION {[1..n -> {"/", "a", "b", "\n"}] : n \in 0..MaxPathLen}

\* a route with the one path pattern is registered on a new router and one
\* request path is matched against it
PathStep(pattern, path) ==
    LET route == [id |-> "r1", paths |-> <<pattern>>, methods |-> None,
                  hosts |-> None, remote_addrs |-> None, vars |-> None,
                  filter_fn |-> None, priority |-> 0, metadata |-> "handler"]
        opts == [method |-> None, host |-> None, remote_addr |-> None,
                 vars |-> None]
    IN /\ last.op = "new"
       /\ last' = [op |-> "path_step", pattern |-> pattern, path |-> path,
                   res |-> Reply(match_route(add_route(NewRouter, route).r,
                                             path, opts))]
       /\ UNCHANGED <<tree, match_data, match_data_index, hash_path, threads>>

NextPath ==
    \E pattern \in ParamPatterns \cup NamedWildPatterns \cup BareWildPatterns,
       path \in StepPaths : PathStep(pattern, path)

SpecPath == Init /\ [][NextPath]_vars

\* the positions of the separators of a string
Slashes(s) == {i \in 1..Len(s) : s[i] = "/"}

NumSegments(s) == Cardinality(Slashes(s)) + 1

\* the position of the k-th separator; 0 before the first segment and
\* Len(s) + 1 after the last
NthSlash(s, k) ==
    IF k = 0 THEN 0
    ELSE IF k > Cardinality(Slashes(s)) THEN Len(s) + 1
    ELSE CHOOSE i \in Slashes(s) :
            Cardinality({j \in Slashes(s) : j < i}) = k - 1

\* the k-th of the "/"-separated segments of a string
Segment(s, k) == SubSeq(s, NthSlash(s, k - 1) + 1, NthSlash(s, k) - 1)

IsParamSegment(seg) == seg # <<>> /\ seg[1] = ":"

\* C14: for a route whose path pattern contains :name segments, a request
\* path matches iff it has the same number of "/"-separated segments, every
\* literal segment is equal, and every segment at a :name position is
\* non-empty; on match, matched[name] equals the request segment at that
\* position for every parameter.
C14_ParamSegments ==
    last.op = "path_step" /\ last.pattern \in ParamPatterns =>
        LET pat == last.pattern
            req == last.path
            fits == /\ NumSegments(req) = NumSegments(pat)
                    /\ \A k \in 1..NumSegments(pat) :
                          IF IsParamSegment(Segment(pat, k))
                          THEN Segment(req, k) # <<>>
                          ELSE Segment(req, k) = Segment(pat, k)
        IN /\ last.res.found <=> fits
           /\ last.res.found =>
                 \A k \in 1..NumSegments(pat) :
                    IsParamSegment(Segment(pat, k)) =>
                       /\ Tail(Segment(pat, k)) \in DOMAIN last.res.matched
                       /\ last.res.matched[Tail(Segment(pat, k))] = Segment(req, k)

\* /a/:x/b matched a request whose middle segment holds a line feed
C14_Witness ==
    /\ last.op = "path_step"
    /\ last.pattern = P_axb
    /\ last.path = <<"/", "a", "/", "\n", "/", "b">>
    /\ last.res.found
    /\ last.res.matched[<<"x">>] = <<"\n">>

\* ------------------------------------------------------------------- C15
\* the literal prefix before the wildcard of a pattern
WildPrefix(pattern) ==
    SubSeq(pattern, 1, (CHOOSE i \in 1..Len(pattern) : pattern[i] = "*") - 1)

\* the name after the wildcard of a pattern
WildName(pattern) ==
    SubSeq(pattern, (CHOOSE i \in 1..Len(pattern) : pattern[i] = "*") + 1,
           Len(pattern))

\* C15: for a route whose pattern ends in *name, every request path that
\* starts with the literal prefix before the wildcard matches, and
\* matched[name] is the entire remainder of the request path after that
\* prefix, including any further "/" characters (possibly empty).
C15_NamedWildcard ==
    last.op = "path_step" /\ last.pattern \in NamedWildPatterns
    /\ StartsWith(last.path, WildPrefix(last.pattern)) =>
        /\ last.res.found
        /\ WildName(last.pattern) \in DOMAIN last.res.matched
        /\ last.res.matched[WildName(last.pattern)]
              = SubSeq(last.path, Len(WildPrefix(last.pattern)) + 1, Len(last.path))

\* ------------------------------------------------------------------- C16
\* C16: for a route whose pattern ends in a bare *, a successful match returns
\* a matched map in which the key ext holds the tail of the request path
\* after the literal prefix.
C16_BareWildcardExt ==
    last.op = "path_step" /\ last.pattern \in BareWildPatterns
    /\ last.res.found =>
        /\ <<"e", "x", "t">> \in DOMAIN last.res.matched
        /\ last.res.matched[<<"e", "x", "t">>]
              = SubSeq(last.path, Len(WildPrefix(last.pattern)) + 1, Len(last.path))

\* ------------------------------------------------------------------- C17
\* the expressions of the vars step's check, one of each operator on the key
\* k, and comparisons with a negative number, with a fraction and with 2^53
StepExprs ==
    {[op |-> "Eq", key |-> "k", value |-> <<"1">>],
     [op |-> "Neq", key |-> "k", value |-> <<"1">>],
     [op |-> "Gt", key |-> "k", value |-> <<"1">>],
     [op |-> "Lt", key |-> "k", value |-> <<"2">>],
     [op |-> "Gt", key |-> "k", value |-> <<"-", "1">>],
     [op |-> "Lt", key |-> "k", value |-> <<"1", ".", "5">>],
     [op |-> "Gt", key |-> "k",
      value |-> <<"9", "0", "0", "7", "1", "9", "9", "2", "5", "4", "7", "4",
                  "0", "9", "9", "2">>],
     [op |-> "In", key |-> "k", value |-> <<<<"1">>, <<"2">>>>],
     [op |-> "Regex", key |-> "k", value |-> <<"1">>]}

\* the vars lists of the candidates: unset, empty, one and two expressions
StepVarLists ==
    {None, Some(<<>>)}
    \cup {Some(<<e>>) : e \in StepExprs}
    \cup {Some(<<e, f>>) : e, f \in StepExprs}

\* the vars mappings of the requests: absent, empty, k bound to a value that
\* is equal, greater, longer, negative, a fraction, written with an exponent,
\* not a number, no numeral at all, or 2^53 + 1 (which rounds to the f64 2^53),
\* and another key bound
StepReqVars ==
    {None, Some(EmptyMap)}
    \cup {Some([x \in {"k"} |-> v]) :
             v \in {<<"1">>, <<"2">>, <<"1", "2">>, <<"x">>, <<"-", "2">>,
                    <<"1", ".", "2", "5">>, <<"1", "e", "1">>,
                    <<"n", "a", "n">>,
                    <<"9", "0", "0", "7", "1", "9", "9", "2", "5", "4", "7",
                      "4", "0", "9", "9", "3">>}}
    \cup {Some([x \in {"j"} |-> <<"1">>])}

\* the step is a function of the vars list and the vars mapping alone: the
\* check starts from every pair of them
InitVars ==
    /\ tree = NewRouter.tree
    /\ match_data = NewRouter.match_data
    /\ match_data_index = NewRouter.match_data_index
    /\ hash_path = NewRouter.hash_path
    /\ last \in {[op |-> "vars_input", vars |-> route_vars,
                  req_vars |-> req_vars] :
                    route_vars \in StepVarLists, req_vars \in StepReqVars}
    /\ readers = [t \in ReaderIds |-> [pc |-> "idle"]]
    /\ writer = [pc |-> "idle", op |-> "none", atomic |-> TRUE]
    /\ iters = [t \in ReaderIds |-> 0]

\* a route with the vars list is registered at an exact path and a request
\* with the vars mapping is matched against it
VarsStep ==
    LET route == [id |-> "r1", paths |-> <<P_ab>>, methods |-> None,
                  hosts |-> None, remote_addrs |-> None, vars |-> last.vars,
                  filter_fn |-> None, priority |-> 0, metadata |-> "handler"]
        opts == [method |-> None, host |-> None, remote_addr |-> None,
                 vars |-> last.req_vars]
    IN /\ last.op = "vars_input"
       /\ last' = [op |-> "vars_step", vars |-> last.vars,
                   req_vars |-> last.req_vars,
                   res |-> Reply(match_route(add_route(NewRouter, route).r,
                                             P_ab, opts))]
       /\ UNCHANGED <<tree, match_data, match_data_index, hash_path, threads>>

SpecVars == InitVars /\ [][VarsStep]_vars

\* C17: the variable-expression step passes iff the candidate's vars list is
\* unset or empty, or the request supplies a vars mapping and every expression
\* of the list evaluates true against it; a candidate with an empty vars list
\* passes when the request has no vars mapping.
C17_VarsStep ==
    last.op = "vars_step" =>
        (last.res.found <=>
            \/ ~IsSome(last.vars)
            \/ Unwrap(last.vars) = <<>>
            \/ /\ IsSome(last.req_vars)
               /\ \A i \in 1..Len(Unwrap(last.vars)) :
                     ExprEval(Unwrap(last.vars)[i], Unwrap(last.req_vars)))

\* ------------------------------------------------------------------- C18
\* the closures, candidates and requests of the predicate step's check
StepFilters == {"accept", "reject", "host_is_lowercase", "has_vars", "k_is_1"}

FilterVarLists ==
    {None, Some(<<>>), Some(<<[op |-> "Neq", key |-> "k", value |-> <<"2">>]>>)}

FilterHosts == {None, Some(H_ab), Some(H_AB)}

FilterReqVars ==
    {None, Some(EmptyMap), Some([x \in {"k"} |-> <<"1">>]),
     Some([x \in {"k"} |-> <<"2">>])}

\* a route with the filter_fn is registered at an exact path and a request is
\* matched against it; the same request is matched against the route without
\* its filter_fn, which tells whether the predicate step was reached
FilterStep(f, route_vars, host, req_vars) ==
    LET route == [id |-> "r1", paths |-> <<P_ab>>, methods |-> None,
                  hosts |-> None, remote_addrs |-> None, vars |-> route_vars,
                  filter_fn |-> Some(f), priority |-> 0, metadata |-> "handler"]
        bare == [route EXCEPT !.filter_fn = None]
        opts == [method |-> None, host |-> host, remote_addr |-> None,
                 vars |-> req_vars]
    IN /\ last' = [op |-> "filter_step", filter_fn |-> f,
                   vars |-> route_vars, opts |-> opts,
                   res |-> Reply(match_route(add_route(NewRouter, route).r,
                                             P_ab, opts)),
                   reached |-> match_route(add_route(NewRouter, bare).r,
                                           P_ab, opts).found]
       /\ UNCHANGED <<tree, match_data, match_data_index, hash_path, threads>>

NextFilter ==
    \E f \in StepFilters, route_vars \in FilterVarLists, host \in FilterHosts,
       req_vars \in FilterReqVars : FilterStep(f, route_vars, host, req_vars)

SpecFilter == Init /\ [][NextFilter]_vars

\* C18: for a candidate with a filter_fn that reached the predicate step,
\* filter_fn is called with the request's vars mapping (or an empty mapping
\* when the request has none) and with a request descriptor whose host is the
\* lowercased request host, and the candidate is accepted iff the call
\* returns true.
C18_FilterCall ==
    last.op = "filter_step" =>
        IF last.reached
        THEN last.res.found <=>
                ApplyFilter(last.filter_fn,
                            IF IsSome(last.opts.vars) THEN Unwrap(last.opts.vars)
                            ELSE EmptyMap,
                            [last.opts EXCEPT !.host =
                                IF IsSome(last.opts.host)
                                THEN Some(to_lowercase(Unwrap(last.opts.host)))
                                ELSE None])
        ELSE ~last.res.found

\* a filter_fn that inspects the host accepted a request whose host the caller
\* wrote in upper case
C18_Witness ==
    /\ last.op = "filter_step"
    /\ last.filter_fn = "host_is_lowercase"
    /\ last.opts.host = Some(H_AB)
    /\ last.reached
    /\ last.res.found

\* ------------------------------------------------------------------- C19
\* C19: every successful match_route result carries the id and the metadata
\* of the one selected candidate record, matched["_path"] equal to that
\* candidate's path_original (which equals the request path when the
\* candidate came from the hash probe), and matched["_method"] equal to the
\* request method iff the request supplied one.
C19_ResultFields ==
    last.op = "match" /\ last.res.found =>
        LET reply == Reply(last.res)
            rec == last.res.route
        IN /\ "id" \in DOMAIN reply
           /\ reply.id = rec.id
           /\ reply.metadata = rec.metadata
           /\ reply.matched[K_path] = rec.path_org
           /\ last.res.phase = 1 => rec.path_org = last.path
           /\ IF IsSome(last.opts.method)
              THEN /\ K_method \in DOMAIN reply.matched
                   /\ reply.matched[K_method] = Unwrap(last.opts.method)
              ELSE K_method \notin DOMAIN reply.matched

\* ------------------------------------------------------------------- C20
\* C20: in every reachable router state (including the empty router) and for
\* every request path and options, match_route returns a normal result:
\* Ok(None) when no candidate passes and Ok(Some) otherwise; it never returns
\* an error.
C20_MatchNeverFails ==
    last.op = "match" =>
        /\ ~Reply(last.res).err
        /\ Reply(last.res).found <=>
              \E rec \in AllRecords(Router) :
                 /\ rec \in Elems(ListUnder(Router, rec.path_org))
                 /\ Eligible(rec, last.path, last.opts)

\* a request was matched against the empty router and nothing was found
C20_Witness ==
    /\ last.op = "match"
    /\ AllRecords(Router) = {}
    /\ DOMAIN tree = {}
    /\ ~Reply(last.res).found
    /\ ~Reply(last.res).err

\* ------------------------------------------------------------------- C23
\* C23: after any sequence of add_route, delete_route and update_route calls,
\* every record stored in hash_path has path_op Equal and is stored under the
\* key equal to its path_original, every record stored in match_data has
\* path_op PrefixMatch, and no record is present in both indices.
C23_IndexPlacement ==
    /\ \A p \in DOMAIN hash_path : \A rec \in Elems(hash_path[p]) :
          rec.path_op = "Equal" /\ rec.path_org = p
    /\ \A i \in DOMAIN match_data : \A rec \in Elems(match_data[i]) :
          rec.path_op = "PrefixMatch"
    /\ UNION {Elems(hash_path[p]) : p \in DOMAIN hash_path}
          \cap UNION {Elems(match_data[i]) : i \in DOMAIN match_data} = {}

\* an update_route call succeeded and both indices hold records
C23_Witness ==
    /\ last.op = "update"
    /\ last.ok
    /\ DOMAIN hash_path # {}
    /\ DOMAIN match_data # {}

\* ------------------------------------------------------------------- C24
\* the path patterns of the parser's check: every string of up to
\* MaxPatternLen characters over the separator, a letter and the two markers
StepPatternStrings ==
    UNION {[1..n -> {"/", "a", ":", "*"}] : n \in 0..MaxPatternLen}

\* one path pattern is parsed and compiled, as process_route does for a route
\* that is registered on a new router
ParseStep(pattern) ==
    /\ last.op = "new"
    /\ last' = [op |-> "parse", pattern |-> pattern,
                parsed |-> parse_path(pattern),
                names |-> generate_pattern(pattern).names]
    /\ UNCHANGED <<tree, match_data, match_data_index, hash_path, threads>>

NextParse == \E pattern \in StepPatternStrings : ParseStep(pattern)

SpecParse == Init /\ [][NextParse]_vars

\* the positions of the markers : and * in a pattern
Markers(pattern) == {i \in 1..Len(pattern) : pattern[i] \in {":", "*"}}

\* C24: for every path pattern, path_key is the substring before the earliest
\* occurrence of either : or * in the pattern (so when a * occurs before a :,
\* the key ends at the *), and path_op is Equal iff the pattern contains
\* neither character.
C24_KeyBeforeFirstMarker ==
    last.op = "parse" =>
        LET ms == Markers(last.pattern)
        IN IF ms = {}
           THEN last.parsed.path_op = "Equal" /\ last.parsed.path = last.pattern
           ELSE /\ last.parsed.path_op # "Equal"
                /\ last.parsed.path =
                      SubSeq(last.pattern, 1,
                             (CHOOSE i \in ms : \A j \in ms : i <= j) - 1)

\* ------------------------------------------------------------------- C25
\* C25: for every path pattern, has_param is true exactly when the pattern
\* compiler produces at least one capture name for it (so a pattern with a
\* :name or * segment never has has_param false).
C25_HasParamIffCaptures ==
    last.op = "parse" => (last.parsed.has_param <=> last.names # <<>>)

\* ------------------------------------------------------------------- C28
\* the descriptors that share the id and the paths of d and differ from it in
\* priority, methods, hosts, vars or metadata
DeleteVariants(d) ==
    {[d EXCEPT !.priority = p, !.methods = m, !.hosts = h, !.vars = v,
               !.metadata = md] :
        p \in {d.priority, d.priority + 5},
        m \in {d.methods, Some({"POST"})},
        h \in {d.hosts, Some(<<H_ab>>)},
        v \in {d.vars, Some(<<>>)},
        md \in {d.metadata, "other"}}

\* C28: delete_route identifies the record to remove by id alone: calling
\* delete_route with a descriptor that has the same id and paths as a
\* registered route but different priority, methods, hosts, vars or metadata
\* succeeds and removes the registered route's records.
C28_DeleteByIdAlone ==
    \A d \in Routes :
        d.id \notin UsedIds(Router) /\ add_route(Router, d).ok =>
            \A v \in DeleteVariants(d) :
                LET deleted == delete_route(add_route(Router, d).r, v)
                IN deleted.ok /\ d.id \notin UsedIds(deleted.r)

\* ------------------------------------------------------------------- C26
\* the candidates and requests of the two-candidate check: a first route that
\* may write _method, _host and a capture before a later step rejects it, and
\* a second route with fewer criteria
P_a == <<"/", "a">>
P_y == <<"/", ":", "y">>

PairFirstRoutes ==
    {[id |-> "r1", paths |-> <<p>>, methods |-> m, hosts |-> h,
      remote_addrs |-> None, vars |-> v, filter_fn |-> f, priority |-> 1,
      metadata |-> "first"] :
        p \in {P_x, P_a},
        m \in {None, Some({"GET"})},
        h \in {None, Some(<<H_ab>>)},
        v \in {None, Some(<<[op |-> "Eq", key |-> "k", value |-> <<"1">>]>>)},
        f \in {None, Some("reject"), Some("accept")}}

PairSecondRoutes ==
    {[id |-> "r2", paths |-> <<p>>, methods |-> None, hosts |-> h,
      remote_addrs |-> None, vars |-> None, filter_fn |-> f, priority |-> 0,
      metadata |-> "second"] :
        p \in {P_y, P_a, P_star},
        h \in {None, Some(<<H_ab>>)},
        f \in {None, Some("reject"), Some("accept")}}

PairRequests ==
    [method : {None, Some(<<"P", "O", "S", "T">>)},
     host : {None, Some(H_AB)},
     remote_addr : {None},
     vars : {None, Some([x \in {"k"} |-> <<"1">>])}]

\* two routes are registered on a new router and a request for /a is matched
PairStep(first, second, opts) ==
    LET R == add_route(add_route(NewRouter, first).r, second).r
    IN /\ last.op = "new"
       /\ last' = [op |-> "pair", R |-> R, path |-> P_a, opts |-> opts,
                   res |-> match_route(R, P_a, opts)]
       /\ UNCHANGED <<tree, match_data, match_data_index, hash_path, threads>>

NextPair ==
    \E first \in PairFirstRoutes, second \in PairSecondRoutes,
       opts \in PairRequests : PairStep(first, second, opts)

SpecPair == Init /\ [][NextPair]_vars

\* the keys that evaluating one candidate may write for a request
KeysOf(rec, opts) ==
    (IF IsSome(opts.method) THEN {K_method} ELSE {})
    \cup (IF IsSome(rec.hosts) THEN {K_host} ELSE {})
    \cup (IF IsSome(rec.compiled_pattern)
          THEN Elems(Unwrap(rec.compiled_pattern).names) ELSE {})

\* C26: the matched map of a successful result contains only entries written
\* while evaluating the candidate that was returned (plus _path): no _host,
\* _method or parameter capture recorded during the evaluation of an earlier,
\* rejected candidate survives into the result.
C26_NoLeftovers ==
    last.op = "pair" /\ last.res.found =>
        /\ DOMAIN last.res.matched \subseteq
              {K_path} \cup KeysOf(last.res.route, last.opts)
        /\ last.res.matched =
              MapPut(match_route_opts(last.res.route, last.path,
                                      normalized(last.opts), EmptyMap).matched,
                     K_path, last.res.route.path_org)

\* the second candidate was returned without a _host and without the capture
\* x, after the first had matched its host and its parameter and was rejected
C26_Witness ==
    /\ last.op = "pair"
    /\ last.res.found
    /\ Len(last.res.visited) = 2
    /\ IsSome(last.res.visited[1].route.hosts)
    /\ last.res.visited[1].route.has_param
    /\ last.res.calls = <<1>>
    /\ DOMAIN last.res.matched = {K_path, K_method}

\* ------------------------------------------------------------------- C27
\* the method, host, parameter and variable steps of a candidate all pass
StepsBeforeFilterPass(rec, path, opts) ==
    /\ method_step(rec, opts)
    /\ IsSome(rec.hosts) => host_step(rec, opts) # 0
    /\ compare_param(path, rec, EmptyMap).ok
    /\ vars_step(rec, opts)

\* C27: per candidate the steps run in the fixed order method, host, path
\* parameters, variable expressions, filter_fn, and stop at the first failing
\* step: a candidate's filter_fn is invoked only if its method, host,
\* parameter and variable steps all passed, and no filter_fn of any candidate
\* ordered after the returned candidate is invoked.
C27_FilterLast ==
    last.op = "pair" =>
        LET cands == Candidates(last.R, last.path)
        IN \A n \in 1..Len(last.res.calls) :
              LET i == last.res.calls[n]
              IN /\ IsSome(cands[i].route.filter_fn)
                 /\ StepsBeforeFilterPass(cands[i].route, last.path,
                                          normalized(last.opts))
                 /\ last.res.found => i <= Len(last.res.visited)

\* the filter_fn of the first candidate was called and rejected it, and the
\* second candidate was returned after its own filter_fn accepted it
C27_Witness ==
    /\ last.op = "pair"
    /\ last.res.found
    /\ last.res.calls = <<1, 2>>
    /\ Len(last.res.visited) = 2

\* ------------------------------------------------------------------- C29
\* the routes of the insertion-order check: two ids, two patterns of equal
\* length under one tree key and an exact path, two priorities
OrderRoutes ==
    {[id |-> i, paths |-> <<p>>, methods |-> None, hosts |-> None,
      remote_addrs |-> None, vars |-> None, filter_fn |-> None,
      priority |-> n, metadata |-> i] :
        i \in {"r1", "r2"}, p \in {P_x, P_y, P_a}, n \in {0, 1}}

\* the records that are registered, in the order in which they were added
AddedOrder == IF "order" \in DOMAIN last THEN last.order ELSE <<>>

\* the records of l without those that have the id, and sit in the list, of rec
RECURSIVE WithoutId(_, _)
WithoutId(l, rec) ==
    IF l = <<>> THEN <<>>
    ELSE (IF l[1].id = rec.id /\ SameList(l[1], rec) THEN <<>> ELSE <<l[1]>>)
         \o WithoutId(Tail(l), rec)

OrderAdd(route) ==
    /\ ~Blocked
    /\ WithinBounds(add_route(Router, route).r)
    /\ Conclude(add_route(Router, route),
                [op |-> "add",
                 order |-> IF add_route(Router, route).ok
                           THEN Append(AddedOrder,
                                       process_route(route.paths[1], route))
                           ELSE AddedOrder])

OrderDelete(route) ==
    /\ ~Blocked
    /\ Conclude(delete_route(Router, route),
                [op |-> "delete",
                 order |-> IF delete_route(Router, route).ok
                              \/ delete_route(Router, route).stuck
                           THEN WithoutId(AddedOrder,
                                          process_route(route.paths[1], route))
                           ELSE AddedOrder])

OrderMatch ==
    /\ ~Blocked
    /\ last' = [op |-> "match", order |-> AddedOrder,
                res |-> match_route(Router, P_a,
                                    [method |-> None, host |-> None,
                                     remote_addr |-> None, vars |-> None])]
    /\ UNCHANGED <<tree, match_data, match_data_index, hash_path, threads>>

NextOrder ==
    \/ \E route \in OrderRoutes : OrderAdd(route)
    \/ \E route \in OrderRoutes : OrderDelete(route)
    \/ OrderMatch

SpecOrder == Init /\ [][NextOrder]_vars

\* two records of one candidate list have equal priority and equal
\* path_original length
SameRank(a, b) ==
    SameList(a, b) /\ a.priority = b.priority /\ Len(a.path_org) = Len(b.path_org)

\* the records of a list that rank with rec, in the order of the list
RECURSIVE Ranked(_, _)
Ranked(l, rec) ==
    IF l = <<>> THEN <<>>
    ELSE (IF SameRank(l[1], rec) THEN <<l[1]>> ELSE <<>>) \o Ranked(Tail(l), rec)

\* C29: within one candidate list, records that have equal priority and equal
\* path_original length are kept in the order in which they were added, so
\* among such records that all pass, match_route returns the one added first.
C29_InsertionOrderKept ==
    /\ \A k \in DOMAIN tree :
          tree[k] \in DOMAIN match_data =>
             \A rec \in Elems(match_data[tree[k]]) :
                Ranked(match_data[tree[k]], rec) = Ranked(AddedOrder, rec)
    /\ \A p \in DOMAIN hash_path : \A rec \in Elems(hash_path[p]) :
          Ranked(hash_path[p], rec) = Ranked(AddedOrder, rec)
    /\ last.op = "match" /\ last.res.found =>
          last.res.route = Ranked(AddedOrder, last.res.route)[1]

\* the route added first was returned although a route of another id with the
\* same priority and pattern length is registered after it
C29_Witness ==
    /\ last.op = "match"
    /\ last.res.found
    /\ last.res.route.id = "r2"
    /\ \E n \in 2..Len(AddedOrder) :
          AddedOrder[n].id = "r1" /\ SameRank(AddedOrder[n], last.res.route)

\* ------------------------------------------------------- concurrent callers
\* a plausible slip: one cursor serves every call of match_route
IteratorShared(t) == "t1"

\* RadixTreeRaw::new_iterator in match_route: each call obtains its own cursor
IteratorOf(t) == t

\* a plausible slip: a call of match_route may start while a mutator call is
\* in progress
CanRead_always(w) == TRUE

\* match_route borrows the router shared (&self), which no caller holds while
\* a mutator's exclusive borrow (&mut self) lasts
CanRead(w) == w.pc = "idle"

\* add_route, delete_route and update_route borrow the router exclusively
\* (&mut self): no other call is in progress
CanWrite(rs, w) == w.pc = "idle" /\ \A t \in ReaderIds : rs[t].pc = "idle"

\* a plausible slip: the cursor stays on the key it yielded
NextCursor_stay(m) == m

\* the cursor after yielding the key of m characters: the next shorter prefix
NextCursor(m) == m - 1

\* RadixIterator::tree_up with the cursor at n: the longest key of at most n
\* characters that is a prefix of the path and carries a payload
TreeUpNext(t, path, n) ==
    LET ms == {m \in 0..n : /\ m <= Len(path)
                            /\ SubSeq(path, 1, m) \in DOMAIN t
                            /\ t[SubSeq(path, 1, m)] > 0}
    IN IF ms = {} THEN [some |-> FALSE]
       ELSE LET m == CHOOSE x \in ms : \A y \in ms : y <= x
            IN [some |-> TRUE, idx |-> t[SubSeq(path, 1, m)], len |-> m,
                cursor |-> NextCursor(m)]

\* the routes, mutator calls and requests of the concurrent callers
W_one ==
    [id |-> "r1", paths |-> <<P_ab>>, methods |-> None, hosts |-> None,
     remote_addrs |-> None, vars |-> None, filter_fn |-> None, priority |-> 0,
     metadata |-> "one"]

W_two ==
    [id |-> "r2", paths |-> <<P_a_star, P_star>>, methods |-> Some({"GET"}),
     hosts |-> None, remote_addrs |-> None, vars |-> None, filter_fn |-> None,
     priority |-> 1, metadata |-> "two"]

W_three ==
    [id |-> "r1", paths |-> <<P_star>>, methods |-> None, hosts |-> None,
     remote_addrs |-> None, vars |-> None, filter_fn |-> None, priority |-> 0,
     metadata |-> "three"]

MutatorCalls ==
    {[kind |-> "add", new |-> w] : w \in {W_one, W_two, W_three}}
    \cup {[kind |-> "delete", old |-> w] : w \in {W_one, W_two, W_three}}
    \cup {[kind |-> "update", old |-> W_one, new |-> W_three],
          [kind |-> "update", old |-> W_three, new |-> W_one],
          [kind |-> "update", old |-> W_two, new |-> W_two]}

ReaderPaths == {P_ab, <<"/", "b">>}

\* the readers ask with a method that W_two rejects
ReaderOpts ==
    [method |-> Some(<<"P", "O", "S", "T">>), host |-> None,
     remote_addr |-> None, vars |-> None]

\* the per-path steps of a mutator call, in the order of its loops
PathSteps(kind, route) ==
    [i \in 1..Len(route.paths) |->
        [kind |-> kind, path |-> route.paths[i], route |-> route]]

WorkOf(call) ==
    CASE call.kind = "add" -> PathSteps("insert", call.new)
      [] call.kind = "delete" -> PathSteps("remove", call.old)
      [] call.kind = "update" ->
            PathSteps("remove", call.old) \o PathSteps("insert", call.new)

\* the mutator call as one function of the router
WholeCall(R, call) ==
    CASE call.kind = "add" -> add_route(R, call.new)
      [] call.kind = "delete" -> delete_route(R, call.old)
      [] call.kind = "update" -> update_route(R, call.old, call.new)

\* a thread calls match_route: the request is normalized
ReadBegin(t, path, opts) ==
    /\ ~Blocked
    /\ readers[t].pc = "idle"
    /\ CanRead(writer)
    /\ readers' = [readers EXCEPT ![t] =
                      [pc |-> "hash", path |-> path, opts |-> opts,
                       snap |-> Router, yielded |-> <<>>,
                       res |-> [err |-> FALSE, found |-> FALSE]]]
    /\ UNCHANGED <<tree, match_data, match_data_index, hash_path, last,
                   writer, iters>>

\* match_route, priority 1: the hash list of the path; when no candidate
\* passes, the iterator is obtained and positioned by search
ReadHash(t) ==
    LET r == readers[t]
        cands == IF r.path \in DOMAIN hash_path
                 THEN [i \in 1..Len(hash_path[r.path]) |->
                          [phase |-> 1, route |-> hash_path[r.path][i]]]
                 ELSE <<>>
        ev == eval_candidates(cands, r.path, normalized(r.opts), 1, EmptyMap)
    IN /\ r.pc = "hash"
       /\ IF ev.k # 0
          THEN /\ readers' = [readers EXCEPT ![t] =
                     [r EXCEPT !.pc = "done",
                               !.res = [err |-> FALSE, found |-> TRUE,
                                        metadata |-> cands[ev.k].route.metadata,
                                        matched |-> MapPut(ev.matched, K_path,
                                                           r.path)]]]
               /\ UNCHANGED iters
          ELSE IF ~TreeNewIterator(tree)
          THEN /\ readers' = [readers EXCEPT ![t] =
                     [r EXCEPT !.pc = "done",
                               !.res = [err |-> TRUE, found |-> FALSE]]]
               /\ UNCHANGED iters
          ELSE /\ readers' = [readers EXCEPT ![t] = [r EXCEPT !.pc = "walk"]]
               /\ iters' = [iters EXCEPT ![IteratorOf(t)] = Len(r.path)]
       /\ UNCHANGED <<tree, match_data, match_data_index, hash_path, last,
                      writer>>

\* match_route, priority 2: one tree_up call and the candidate list it yields
ReadUp(t) ==
    LET r == readers[t]
        up == TreeUpNext(tree, r.path, iters[IteratorOf(t)])
        cands == TreeCandidates(Router, <<up.idx>>)
        ev == eval_candidates(cands, r.path, normalized(r.opts), 1, EmptyMap)
    IN /\ r.pc = "walk"
       /\ IF ~up.some
          THEN /\ readers' = [readers EXCEPT ![t] = [r EXCEPT !.pc = "done"]]
               /\ iters' = [iters EXCEPT ![IteratorOf(t)] = -1]
          ELSE /\ iters' = [iters EXCEPT ![IteratorOf(t)] = up.cursor]
               /\ readers' = [readers EXCEPT ![t] =
                     IF ev.k # 0
                     THEN [r EXCEPT !.pc = "done",
                                    !.yielded = Append(@, up.len),
                                    !.res = [err |-> FALSE, found |-> TRUE,
                                             metadata |-> cands[ev.k].route.metadata,
                                             matched |->
                                                MapPut(ev.matched, K_path,
                                                       cands[ev.k].route.path_org)]]
                     ELSE [r EXCEPT !.yielded = Append(@, up.len)]]
       /\ UNCHANGED <<tree, match_data, match_data_index, hash_path, last,
                      writer>>

\* match_route returns to its caller
ReadEnd(t) ==
    /\ readers[t].pc = "done"
    /\ readers' = [readers EXCEPT ![t] = [pc |-> "idle"]]
    /\ UNCHANGED <<tree, match_data, match_data_index, hash_path, last,
                   writer, iters>>

\* a thread calls add_route, delete_route or update_route
WriteBegin(call) ==
    /\ CanWrite(readers, writer)
    /\ WithinBounds(WholeCall(Router, call).r)
    /\ writer' = [pc |-> "busy", op |-> call.kind, work |-> WorkOf(call),
                  whole |-> WholeCall(Router, call)]
    /\ UNCHANGED <<tree, match_data, match_data_index, hash_path, last,
                   readers, iters>>

\* one insert_route or remove_route of the call in progress; the call returns
\* at the first error or after its last path
\* after it the call goes on with its next path, or it ends, which for a
\* stuck step is blocking for ever or a panic that unwinds the call
WriteStep ==
    LET item == writer.work[1]
        res == IF item.kind = "insert"
               THEN insert_route(Router, item.path, item.route)
               ELSE remove_route(Router, item.path, item.route)
    IN /\ writer.pc = "busy"
       /\ Install(res.r)
       /\ IF res.ok /\ Len(writer.work) > 1
          THEN writer' = [writer EXCEPT !.work = Tail(@)]
          ELSE \E outcome \in Outcomes(res) :
                  writer' = [pc |-> IF outcome = "blocked" THEN "blocked"
                                    ELSE "idle",
                             op |-> writer.op, atomic |-> res = writer.whole]
       /\ UNCHANGED <<last, readers, iters>>

ReaderStep(t) == ReadHash(t) \/ ReadUp(t) \/ ReadEnd(t)

NextConc ==
    \/ \E t \in ReaderIds, path \in ReaderPaths : ReadBegin(t, path, ReaderOpts)
    \/ \E t \in ReaderIds : ReadHash(t)
    \/ \E t \in ReaderIds : ReadUp(t)
    \/ \E t \in ReaderIds : ReadEnd(t)
    \/ \E call \in MutatorCalls : WriteBegin(call)
    \/ WriteStep

SpecConc == Init /\ [][NextConc]_vars

\* every thread that is inside match_route keeps being scheduled
SpecConcFair == SpecConc /\ \A t \in ReaderIds : WF_vars(ReaderStep(t))

\* ------------------------------------------------------------------- C21
\* C21: when N readers call match_route in parallel on a router that no
\* mutator is changing, under every interleaving each reader's result equals
\* the result of the same call executed alone on that router.
C21_ReadersIndependent ==
    \A t \in ReaderIds :
        readers[t].pc = "done" =>
            readers[t].res = Reply(match_route(Router, readers[t].path,
                                               readers[t].opts))

\* one reader has found a route in the tree walk while the other is in the
\* middle of its own walk
C21_Witness ==
    \E t, u \in ReaderIds :
        /\ t # u
        /\ readers[t].pc = "done"
        /\ readers[t].res.found
        /\ Len(readers[t].yielded) = 2
        /\ readers[u].pc = "walk"
        /\ Len(readers[u].yielded) = 1

\* ------------------------------------------------------------------- C22
\* C22: when readers run concurrently with update_route (and likewise with
\* add_route or delete_route), every match_route call returns a result that is
\* correct for a router state that existed entirely before or entirely after
\* the mutator call: no reader observes the indices with the mutation partly
\* applied.
C22_NoPartialMutation ==
    /\ writer.pc = "idle" => writer.atomic
    /\ \A t \in ReaderIds :
          readers[t].pc # "idle" =>
             /\ writer.pc = "idle"
             /\ Router = readers[t].snap
             /\ readers[t].pc = "done" =>
                   readers[t].res = Reply(match_route(readers[t].snap,
                                                      readers[t].path,
                                                      readers[t].opts))

\* a reader found the new route after an update_route call had replaced the
\* old one
C22_Witness ==
    /\ writer.pc = "idle"
    /\ writer.op = "update"
    /\ \E t \in ReaderIds :
          /\ readers[t].pc = "done"
          /\ readers[t].res.found
          /\ readers[t].res.metadata = "three"

\* ------------------------------------------------------------------- C30
\* C30: every match_route call terminates: the tree walk yields each key that
\* is a prefix of the request path at most once, in strictly decreasing
\* length, so the number of up() steps is bounded by the length of the request
\* path plus one.
C30_MatchTerminates ==
    /\ [](\A t \in ReaderIds :
            readers[t].pc # "idle" =>
               /\ Len(readers[t].yielded) <= Len(readers[t].path) + 1
               /\ \A i, j \in 1..Len(readers[t].yielded) :
                     i < j => readers[t].yielded[i] > readers[t].yielded[j])
    /\ \A t \in ReaderIds :
          (readers[t].pc \in {"hash", "walk"}) ~> (readers[t].pc = "done")

\* a walk has yielded two keys and is not finished
C30_Witness ==
    \E t \in ReaderIds :
        /\ readers[t].pc = "walk"
        /\ Len(readers[t].yielded) = 2

====
